---- MODULE Spec2Model ----
(***************************************************************************)
(* Model of servicenow_tools/servicenow_api.py: the ServiceNowAPIClient    *)
(* (construction, OAuth token cache, request layer, paginated query_table, *)
(* table fallbacks).  One step of the model is one pass through the body   *)
(* of the query_table loop (one _request_json call with everything the     *)
(* caller does with its outcome up to the next request or the return).     *)
(***************************************************************************)
EXTENDS Integers, Sequences, FiniteSets, TLC

\* ------------------------------------------------------------------ bounds
MaxTime == 8          \* the clock stops after this many ticks
Resolution == 2       \* clock ticks per second (time.time() is fractional)
MaxBatch == 3         \* largest batch_size a caller passes to query_table
MaxLimit == 3         \* largest limit a caller passes to query_table
MaxPage == 4          \* largest page a backend serves to a small request
MaxRequests == 3      \* table requests followed within one query_table run
MaxHeld == 5          \* records an honest backend holds for a query
MaxToken == 2         \* distinct access tokens the token endpoint hands out
MaxId == 2            \* distinct sys_ids in option rows
MaxRows == 2          \* rows in a page of option rows
MaxVariables == 2     \* variables of a catalog item
MaxChecks == 3        \* checks in a list handed to determine_overall_status
MaxIdentifiers == 3   \* catalog items named on the command line of the validator
MaxFileLen == 4       \* pieces of text in a standards file before it is updated
MaxUpdates == 2       \* updates of a standards file that are followed

\* ------------------------------------------------------- program constants
None == -1                  \* Python None for integer-valued attributes
OAuthMargin == 30           \* seconds of safety margin before expiry
DefaultExpiresIn == 1800    \* expires_in when the token response omits it
DefaultBatchSize == 100     \* query_table(batch_size=100)
OptionBatchSize == 200      \* batch_size of the sc_item_option query
ChunkSize == 50             \* _fetch_records_by_sys_ids(chunk_size=50)

Min(a, b) == IF a < b THEN a ELSE b

\* ----------------------------------------------------------------- strings
\* Error messages of a payload are sequences of characters, so that
\* str.lower() and str.startswith() are computed and not assumed.
UpperChars == <<"A","B","C","D","E","F","G","H","I","J","K","L","M",
                "N","O","P","Q","R","S","T","U","V","W","X","Y","Z">>
LowerChars == <<"a","b","c","d","e","f","g","h","i","j","k","l","m",
                "n","o","p","q","r","s","t","u","v","w","x","y","z">>

LowerChar(c) ==
    IF \E i \in 1..26 : UpperChars[i] = c
    THEN LowerChars[CHOOSE i \in 1..26 : UpperChars[i] = c]
    ELSE c

Lower(s) == [i \in 1..Len(s) |-> LowerChar(s[i])]

StartsWith(s, p) == Len(s) >= Len(p) /\ SubSeq(s, 1, Len(p)) = p

InvalidTablePrefix == <<"i","n","v","a","l","i","d"," ","t","a","b","l","e">>

MsgInvalidTable == <<"I","n","v","a","l","i","d"," ","t","a","b","l","e"," ","x">>
MsgInvalidTableUpper == <<"I","N","V","A","L","I","D"," ","T","A","B","L","E">>
MsgInvalidTableLower == <<"i","n","v","a","l","i","d"," ","t","a","b","l","e",":"," ","x">>
MsgInvalidTabl == <<"I","n","v","a","l","i","d"," ","t","a","b","l">>
MsgNotPrefix == <<"a","n"," ","i","n","v","a","l","i","d"," ","t","a","b","l","e">>
MsgForbidden == <<"F","o","r","b","i","d","d","e","n">>
MsgEmpty == <<>>

Messages == {MsgInvalidTable, MsgInvalidTableUpper, MsgInvalidTableLower,
             MsgInvalidTabl, MsgNotPrefix, MsgForbidden, MsgEmpty}

\* ---------------------------------------------------------------- payloads
\* A decoded body: shape "none" is an undecodable body (or JSON null),
\* "list" a JSON value that is not an object, "map" a JSON object whose
\* "error" member is absent, an object with a "message", a string, or some
\* other value.
NonePayload == [shape |-> "none", error_shape |-> "absent", message |-> MsgEmpty]
ListPayload == [shape |-> "list", error_shape |-> "absent", message |-> MsgEmpty]
PlainPayload == [shape |-> "map", error_shape |-> "absent", message |-> MsgEmpty]

ErrorPayloads ==
    {[shape |-> "map", error_shape |-> es, message |-> m] :
        es \in {"map", "str"}, m \in Messages}
    \cup {[shape |-> "map", error_shape |-> "other", message |-> MsgEmpty]}

\* ------------------------------------------------------------------ errors
NoError == [kind |-> "none", message |-> "", status_code |-> None, payload |-> NonePayload]

\* ServiceNowAPIError(message, status_code=..., payload=...)
ServiceNowAPIError(msg, status, payload) ==
    [kind |-> "ServiceNowAPIError", message |-> msg, status_code |-> status, payload |-> payload]

\* The message of the error _request raises for a 401 response.
MsgUnauthorized == "Unauthorized when calling ServiceNow API; check credentials"

\* Exceptions of other classes; getattr(exc, "status_code", None) is None.
OtherError(kind, msg) ==
    [kind |-> kind, message |-> msg, status_code |-> None, payload |-> NonePayload]

\* ------------------------------------------------------------------- state
VARIABLES
    config,                   \* ServiceNowEnvironmentConfig: which fields are populated
    auto_refresh_token,       \* self._auto_refresh_token
    auth,                     \* self._auth: "unset", "basic" (HTTPBasicAuth) or "none"
    oauth_token,              \* self._oauth_token: None or an access token
    oauth_expiration_epoch,   \* self._oauth_expiration_epoch: None or epoch seconds
    now,                      \* the clock, in ticks of 1/Resolution second
    pc,                       \* "new", "dead", "ready", "running"
    op,                       \* the caller-facing operation in progress or last run
    phase,                    \* which query of the operation is running
    qt,                       \* locals of the running query_table call
    fb,                       \* locals of the fallback variable resolver
    queries,                  \* tables query_table was called on in this operation
    exchange,                 \* what the last step sent and received
    issued,                   \* access tokens the token endpoint has handed out
    fetched_at,               \* tick and expires_in of the last successful token fetch
    outcome,                  \* how the last operation ended
    primary_err,              \* the error that ended the primary query of the operation
    raised_kinds,             \* classes of the errors raised for 401 and for other statuses
    target_instance,          \* get_clone_info: the local target_instance
    identifier,               \* get_catalog_item / validate: the sys_id or name asked for
    item_fetch,               \* validate: how self.client.get_catalog_item(identifier) ends
    variables_fetch,          \* validate: how self.client.get_catalog_item_variables(...) ends
    result,                   \* validate: the result returned or the error raised
    args,                     \* main of the validator: catalog_items and catalog_limit
    catalog_items,            \* main: the identifiers the loop goes over
    main_results,             \* main: the local results, the results appended so far
    main_pc,                  \* main: "none", "loop", "returned" or "raised"
    clone_fetch,              \* evaluate_clone_status: how client.get_clone_info ends
    stale_after_days,         \* evaluate_clone_status: the argument stale_after_days
    now_utc,                  \* evaluate_clone_status: what datetime.now(tz=UTC) gives
    clone_status,             \* evaluate_clone_status: the CloneStatus or the error raised
    environment,              \* ServiceNowAPIClient(environment): the name asked for
    environ,                  \* os.environ: the value of each variable, None when unset
    env_config,               \* what load_environment_config returned or raised
    file,                     \* update_markdown_file: the file at path
    content,                  \* update_markdown_file: the argument content
    file_before,              \* the file as it was before the last update
    updates                   \* how many times the file has been updated

vars == <<config, auto_refresh_token, auth, oauth_token, oauth_expiration_epoch, now,
          pc, op, phase, qt, fb, queries, exchange, issued, fetched_at, outcome,
          primary_err, raised_kinds, target_instance, identifier,
          item_fetch, variables_fetch, result,
          args, catalog_items, main_results, main_pc,
          clone_fetch, stale_after_days, now_utc, clone_status,
          environment, environ, env_config,
          file, content, file_before, updates>>

\* The state of the catalog item validator, which the client does not touch.
validator_vars == <<item_fetch, variables_fetch, result>>

\* The state of the command-line scripts built on the client.
main_vars == <<args, catalog_items, main_results, main_pc>>
clone_vars == <<clone_fetch, stale_after_days, now_utc, clone_status>>
env_vars == <<environment, environ, env_config>>
file_vars == <<file, content, file_before, updates>>
script_vars == <<main_vars, clone_vars, env_vars, file_vars>>

\* --------------------------------------------------------------- responses
TokenStatuses == {200, 300, 400}
TableStatuses == {200, 400, 401, 404, 500}
ExpiresInChoices == {None, 30, 32}   \* None: the response omits it

\* A response of the token endpoint.  net = "timeout": no response at all.
TokenNoResponse ==
    [net |-> "timeout", status |-> 0, json |-> "none", access_token |-> 0, expires_in |-> None]

TokenResponses ==
    {TokenNoResponse}
    \cup {[net |-> "ok", status |-> s, json |-> "none", access_token |-> 0, expires_in |-> None] :
            s \in TokenStatuses}
    \cup {[net |-> "ok", status |-> s, json |-> "list", access_token |-> 0, expires_in |-> None] :
            s \in TokenStatuses}
    \cup {[net |-> "ok", status |-> s, json |-> "map", access_token |-> 0, expires_in |-> None] :
            s \in TokenStatuses}
    \cup {[net |-> "ok", status |-> s, json |-> "map", access_token |-> a, expires_in |-> e] :
            s \in TokenStatuses, a \in 1..MaxToken, e \in ExpiresInChoices}

\* Tables whose records matter by content (a row is the sys_id it refers to,
\* 0 when the row has none); on every other table a record is its serial
\* number in the order the backend served it.
ContentTables == {"sc_item_option", "item_option_new"}

SeqsUpTo(S, n) == UNION {[1..k -> S] : k \in 0..n}

Serial(from, size) == [i \in 1..size |-> from + i]

PageSizes(lim) == (0..MaxPage) \cup {lim}

\* Option rows with more distinct ids than one chunk holds: the last id
\* comes first, twice, around a row without a value.
ManyOptionRows == <<ChunkSize + 1, 0, ChunkSize + 1>> \o Serial(0, ChunkSize + 1)

\* The backend answering a lookup with one record for each id asked for.
RecordsAskedFor == fb.chunk

Pages(q, lim) ==
    IF q.table = "sc_item_option"
    THEN SeqsUpTo(0..MaxId, MaxRows) \cup {ManyOptionRows}
    ELSE IF q.table = "item_option_new"
    THEN SeqsUpTo(0..MaxId, MaxRows) \cup {RecordsAskedFor}
    ELSE {Serial(q.served, s) : s \in PageSizes(lim)}

TableNoResponse == [net |-> "timeout", status |-> 0, payload |-> NonePayload, result |-> <<>>]

TableResponses(q, lim) ==
    {TableNoResponse}
    \cup {[net |-> "ok", status |-> s, payload |-> p, result |-> <<>>] :
            s \in TableStatuses, p \in {NonePayload, ListPayload}}
    \cup {[net |-> "ok", status |-> s, payload |-> p, result |-> <<>>] :
            s \in TableStatuses \ {200}, p \in ErrorPayloads}
    \cup {[net |-> "ok", status |-> 200, payload |-> PlainPayload, result |-> pg] :
            pg \in Pages(q, lim)}

NotFetched == [at |-> None, expires_in |-> None]

\* ------------------------------------------------------------ token cache
\* Python truthiness of an Optional[int] / Optional[str] attribute.
Truthy(x) == x # None /\ x # 0

\* int(time.time())
IntTime(t) == t \div Resolution

\* The freshness test without the safety margin.
TokenFresh_NoMargin(tok, exp, t) ==
    Truthy(tok) /\ Truthy(exp) /\ t < exp * Resolution

\* _ensure_oauth_token: the cached token is still good
\*   self._oauth_token and self._oauth_expiration_epoch
\*   and time.time() < self._oauth_expiration_epoch - 30
TokenFresh(tok, exp, t) ==
    Truthy(tok) /\ Truthy(exp) /\ t < (exp - OAuthMargin) * Resolution

\* The status check rejecting server errors only.
TokenStatusFails_ServerOnly(status) == status >= 500

\* _ensure_oauth_token: the status check on the token response
TokenStatusFails(status) == status >= 400

\* int(payload.get("expires_in", 1800))
ExpiresIn_DefaultHour(tr) == IF tr.expires_in = None THEN 3600 ELSE tr.expires_in

ExpiresIn(tr) == IF tr.expires_in = None THEN DefaultExpiresIn ELSE tr.expires_in

\* _safe_json of a token response
TokenPayload(tr) ==
    IF tr.json = "map" THEN PlainPayload
    ELSE IF tr.json = "list" THEN ListPayload ELSE NonePayload

\* The token step forgetting the cached token when the endpoint refuses.
ensure_oauth_token_DropOnFailure(tr) ==
    LET keep == [posted |-> FALSE, err |-> NoError,
                 token |-> oauth_token, expiry |-> oauth_expiration_epoch,
                 checked |-> FALSE]
    IN  IF ~auto_refresh_token THEN keep
        ELSE IF TokenFresh(oauth_token, oauth_expiration_epoch, now)
        THEN [keep EXCEPT !.checked = TRUE]
        ELSE IF ~config.oauth_token_url
        THEN \* session.post(None, ...) raises MissingSchema before sending
             [keep EXCEPT !.checked = TRUE,
                          !.err = OtherError("RequestException", "Invalid URL")]
        ELSE IF tr.net = "timeout"
        THEN [keep EXCEPT !.checked = TRUE, !.posted = TRUE,
                          !.err = OtherError("RequestException", "timeout")]
        ELSE IF TokenStatusFails(tr.status)
        THEN [keep EXCEPT !.checked = TRUE, !.posted = TRUE, !.token = None,
                          !.err = ServiceNowAPIError("Failed to obtain OAuth token",
                                                     tr.status, TokenPayload(tr))]
        ELSE IF tr.json = "none"
        THEN [keep EXCEPT !.checked = TRUE, !.posted = TRUE,
                          !.err = OtherError("ValueError", "token_response.json()")]
        ELSE IF tr.json = "list"
        THEN [keep EXCEPT !.checked = TRUE, !.posted = TRUE,
                          !.err = OtherError("AttributeError", "payload.get")]
        ELSE IF tr.access_token = 0
        THEN [keep EXCEPT !.checked = TRUE, !.posted = TRUE,
                          !.err = ServiceNowAPIError("OAuth response missing access_token",
                                                     None, PlainPayload)]
        ELSE [posted |-> TRUE, err |-> NoError, token |-> tr.access_token,
              expiry |-> IntTime(now) + ExpiresIn(tr), checked |-> TRUE]

\* _ensure_oauth_token.  Yields whether a POST went to the token endpoint,
\* the error raised (NoError when none) and the token cache afterwards.
ensure_oauth_token(tr) ==
    LET keep == [posted |-> FALSE, err |-> NoError,
                 token |-> oauth_token, expiry |-> oauth_expiration_epoch,
                 checked |-> FALSE]
    IN  IF ~auto_refresh_token THEN keep
        ELSE IF TokenFresh(oauth_token, oauth_expiration_epoch, now)
        THEN [keep EXCEPT !.checked = TRUE]
        ELSE IF ~config.oauth_token_url
        THEN \* session.post(None, ...) raises MissingSchema before sending
             [keep EXCEPT !.checked = TRUE,
                          !.err = OtherError("RequestException", "Invalid URL")]
        ELSE IF tr.net = "timeout"
        THEN [keep EXCEPT !.checked = TRUE, !.posted = TRUE,
                          !.err = OtherError("RequestException", "timeout")]
        ELSE IF TokenStatusFails(tr.status)
        THEN [keep EXCEPT !.checked = TRUE, !.posted = TRUE,
                          !.err = ServiceNowAPIError("Failed to obtain OAuth token",
                                                     tr.status, TokenPayload(tr))]
        ELSE IF tr.json = "none"
        THEN [keep EXCEPT !.checked = TRUE, !.posted = TRUE,
                          !.err = OtherError("ValueError", "token_response.json()")]
        ELSE IF tr.json = "list"
        THEN [keep EXCEPT !.checked = TRUE, !.posted = TRUE,
                          !.err = OtherError("AttributeError", "payload.get")]
        ELSE IF tr.access_token = 0
        THEN [keep EXCEPT !.checked = TRUE, !.posted = TRUE,
                          !.err = ServiceNowAPIError("OAuth response missing access_token",
                                                     None, PlainPayload)]
        ELSE [posted |-> TRUE, err |-> NoError, token |-> tr.access_token,
              expiry |-> IntTime(now) + ExpiresIn(tr), checked |-> TRUE]

\* The responses the token endpoint can give to this call: none is drawn
\* when _ensure_oauth_token would not reach session.post.
WillPost ==
    /\ auto_refresh_token
    /\ ~TokenFresh(oauth_token, oauth_expiration_epoch, now)
    /\ config.oauth_token_url

\* ------------------------------------------------------------ request layer
NoRequest == [table |-> "", limit |-> None, offset |-> None, basic |-> FALSE, bearer |-> None]

NoExchange ==
    [at |-> None, checked |-> FALSE, token_posted |-> FALSE, token_ok |-> FALSE,
     token_resp |-> TokenNoResponse,
     token_before |-> None, expiry_before |-> None, fetched_before |-> NotFetched,
     sent |-> FALSE, request |-> NoRequest, resp |-> TableNoResponse,
     err |-> NoError, payload |-> NonePayload]

\* _request: which credentials go with the request.
\*   if self.config.client_id and self.config.client_secret: ... Bearer
UsesBearer == config.client_id /\ config.client_secret

TokenResponsesFor(needed) ==
    IF needed /\ WillPost THEN TokenResponses ELSE {TokenNoResponse}

\* The token response, and the table response when the token step lets the
\* request through, that one call of _request_json meets.
ResponsePairs(needed, R) ==
    {p \in TokenResponsesFor(needed) \X R :
        (needed /\ ensure_oauth_token(p[1]).err # NoError) => p[2] = TableNoResponse}

\* The request layer without its 401 check.
IsUnauthorized_Never(status) == FALSE

\* _request: the 401 check
IsUnauthorized(status) == status = 401

\* The status check letting status 400 through.
RequestFails_Above400(status) == status > 400

\* _request_json: the status check
RequestFails(status) == status >= 400

\* _request: the token step, taken when client credentials are configured
TokenStep(tr) ==
    IF UsesBearer THEN ensure_oauth_token(tr)
    ELSE [posted |-> FALSE, err |-> NoError, token |-> oauth_token,
          expiry |-> oauth_expiration_epoch, checked |-> FALSE]

\* _request and _request_json for GET /api/now/table/<table> with
\* sysparm_limit = lim and sysparm_offset = off, given the response tr the
\* token endpoint would give and the response r the table API would give.
\* e: how the token step of _request went.
RequestAfterTokenStep(table, lim, off, tr, r, e) ==
    LET req == [table |-> table, limit |-> lim, offset |-> off,
                basic |-> (~UsesBearer /\ auth = "basic"),
                bearer |-> IF UsesBearer THEN e.token ELSE None]
        sent == e.err = NoError
        err == IF e.err # NoError THEN e.err
               ELSE IF r.net = "timeout" THEN OtherError("RequestException", "timeout")
               ELSE IF IsUnauthorized(r.status)
               THEN ServiceNowAPIError(MsgUnauthorized, r.status, NonePayload)
               ELSE IF r.payload.shape = "none"
               THEN ServiceNowAPIError("ServiceNow response did not contain valid JSON",
                                       r.status, NonePayload)
               ELSE IF RequestFails(r.status)
               THEN ServiceNowAPIError("ServiceNow API request failed", r.status, r.payload)
               ELSE NoError
    IN  [err |-> err,
         payload |-> IF err = NoError THEN r.payload ELSE NonePayload,
         token |-> e.token, expiry |-> e.expiry,
         exch |-> [at |-> now, checked |-> e.checked, token_posted |-> e.posted,
                   token_ok |-> (e.posted /\ e.err = NoError),
                   token_resp |-> IF e.posted THEN tr ELSE TokenNoResponse,
                   token_before |-> oauth_token, expiry_before |-> oauth_expiration_epoch,
                   fetched_before |-> fetched_at,
                   sent |-> sent, request |-> IF sent THEN req ELSE NoRequest,
                   resp |-> IF sent THEN r ELSE TableNoResponse,
                   err |-> err,
                   payload |-> IF err = NoError THEN r.payload ELSE NonePayload]]

request_json(table, lim, off, tr, r) ==
    RequestAfterTokenStep(table, lim, off, tr, r, TokenStep(tr))

\* --------------------------------------------------------------- query_table
NoQuery == [table |-> "", limit |-> None, batch_size |-> 0, collected |-> <<>>,
            offset |-> 0, remaining |-> None, served |-> 0, nreq |-> 0, pages |-> <<>>,
            held |-> None]

\* query_table: the locals before the loop
NewQuery(table, limit, batch_size) ==
    [table |-> table, limit |-> limit, batch_size |-> batch_size, collected |-> <<>>,
     offset |-> 0, remaining |-> limit,
     served |-> 0, nreq |-> 0, pages |-> <<>>,   \* what the backend did so far
     held |-> None]    \* the records an honest backend holds (None: any backend)

\* params["sysparm_limit"]
SysparmLimit(q) ==
    IF q.limit # None THEN Min(q.batch_size, q.remaining) ELSE q.batch_size

\* The page replacing what was collected instead of extending it.
Extend_Replace(collected, results) == results

\* collected.extend(results)
Extend(collected, results) == collected \o results

\* The test taking a full page for the last one.
ShortPage_OrFull(fetched, lim) == fetched <= lim

\* if fetched < params["sysparm_limit"]: break
ShortPage(fetched, lim) == fetched < lim

\* One pass through the body of the while loop of query_table.  done: the
\* call is over, either raising x.err or returning q.collected.
\* lim: the sysparm_limit asked for; x: how _request_json went.
IterateAfterRequest(q, r, lim, x) ==
    LET got == x.err = NoError /\ x.payload.shape = "map"
        q1 == [q EXCEPT !.nreq = IF x.exch.sent THEN @ + 1 ELSE @,
                        !.served = IF got THEN @ + Len(r.result) ELSE @,
                        !.pages = IF got THEN Append(@, Len(r.result)) ELSE @]
        fetched == Len(r.result)
        rem == IF q.limit # None THEN q.remaining - fetched ELSE None
        q2 == [q1 EXCEPT !.collected = Extend(@, r.result), !.remaining = rem]
    IN  IF x.err # NoError
        THEN [x |-> x, done |-> TRUE, err |-> x.err, q |-> q1]
        ELSE IF x.payload.shape # "map"
        THEN [x |-> x, done |-> TRUE, err |-> OtherError("AttributeError", "payload.get"), q |-> q1]
        ELSE IF fetched = 0
        THEN [x |-> x, done |-> TRUE, err |-> NoError, q |-> q1]
        ELSE IF q.limit # None /\ rem <= 0   \* remaining is not None and remaining <= 0
        THEN [x |-> x, done |-> TRUE, err |-> NoError, q |-> q2]
        ELSE IF ShortPage(fetched, lim)
        THEN [x |-> x, done |-> TRUE, err |-> NoError, q |-> q2]
        ELSE [x |-> x, done |-> FALSE, err |-> NoError,
              q |-> [q2 EXCEPT !.offset = @ + fetched]]

Iterate(q, tr, r) ==
    IterateAfterRequest(q, r, SysparmLimit(q),
                        request_json(q.table, SysparmLimit(q), q.offset, tr, r))

\* ---------------------------------------------------------------- fallbacks
\* The test comparing the message without lower-casing it.
is_invalid_table_error_CaseSensitive(exc) ==
    IF exc.status_code # 400 THEN FALSE
    ELSE IF exc.payload.shape # "map" THEN FALSE
    ELSE IF exc.payload.error_shape = "other" THEN FALSE
    ELSE StartsWith(exc.payload.message, InvalidTablePrefix)

\* The test taking every 400 with a JSON object for an invalid table.
is_invalid_table_error_AnyMessage(exc) ==
    exc.status_code = 400 /\ exc.payload.shape = "map"

\* _is_invalid_table_error
is_invalid_table_error(exc) ==
    IF exc.status_code # 400 THEN FALSE
    ELSE IF exc.payload.shape # "map" THEN FALSE
    ELSE IF exc.payload.error_shape = "other" THEN FALSE
    ELSE StartsWith(Lower(exc.payload.message), InvalidTablePrefix)

\* except ServiceNowAPIError as exc: if not _is_invalid_table_error(exc): raise
FallbackEligible(exc) ==
    exc.kind = "ServiceNowAPIError" /\ is_invalid_table_error(exc)

NoFallback == [option_ids |-> <<>>, start |-> 0, chunk |-> <<>>, results |-> {}]

\* _get_catalog_item_variables_via_item_option: the loop that collects the
\* distinct item_option_new ids of the rows, in order of first appearance
RECURSIVE OptionIds(_, _)
OptionIds(rows, acc) ==
    IF rows = <<>> THEN acc
    ELSE LET sys_id == Head(rows)
             InAcc == \E i \in 1..Len(acc) : acc[i] = sys_id
         IN  CHOOSE option_ids \in
                 {OptionIds(rest, ids) :
                     rest \in {Tail(rows)},
                     ids \in {IF sys_id # 0 /\ ~InAcc THEN Append(acc, sys_id) ELSE acc}} :
                 TRUE

\* The chunk running to the end of the list, whatever its size.
Chunk_ToEnd(sys_ids, start) == SubSeq(sys_ids, start + 1, Len(sys_ids))

\* _fetch_records_by_sys_ids: chunk = sys_ids[start : start + chunk_size]
Chunk(sys_ids, start) == SubSeq(sys_ids, start + 1, Min(start + ChunkSize, Len(sys_ids)))

\* _fetch_records_by_sys_ids: results[sys_id] = record for records with a sys_id
Store(results, records) == (results \cup {records[i] : i \in 1..Len(records)}) \ {0}

\* [records[sys_id] for sys_id in option_ids if sys_id in records]
Ordered(option_ids, results) ==
    LET Test(id) == id \in results
    IN  SelectSeq(option_ids, Test)

\* ---------------------------------------------------------------- outcomes
NoOutcome == [op |-> "none", state |-> "none", value |-> <<>>, err |-> NoError]
Returned(o, v) == [op |-> o, state |-> "returned", value |-> v, err |-> NoError]
Raised(o, e) == [op |-> o, state |-> "raised", value |-> <<>>, err |-> e]

\* What the caller of query_table does when the call is over: either the
\* operation ends (finish) or it calls query_table again (next).
Finish(out) == [finish |-> TRUE, outcome |-> out, phase |-> "done", next |-> NoQuery, fb |-> NoFallback]
Continue(ph, q, f) == [finish |-> FALSE, outcome |-> NoOutcome, phase |-> ph, next |-> q, fb |-> f]

\* _get_clone_info_from_requests
CloneFallbackQuery == NewQuery("sn_instance_clone_request", 1, DefaultBatchSize)

\* The values of the target_instance argument: "" when it is left out.
TargetArguments == {"", "uat"}

\* extract_instance_name(self.config.instance_url)
ConfiguredInstance == "dev"

\* f"No clone history found for target instance '{target_instance}'"
MsgNoCloneHistory(target) ==
    IF target = "uat" THEN "No clone history found for target instance 'uat'"
    ELSE IF target = "dev" THEN "No clone history found for target instance 'dev'"
    ELSE "No clone history found for target instance ''"

\* The end of get_clone_info handing back whatever the fallback query gave.
clone_info_or_not_found_NoCheck(target, records) ==
    Finish(Returned("get_clone_info", IF records = <<>> THEN <<>> ELSE <<records[1]>>))

\* get_clone_info: if not records: raise ServiceNowAPIError(...)
\*                 return records[0]
clone_info_or_not_found(target, records) ==
    IF records = <<>>
    THEN Finish(Raised("get_clone_info",
                       ServiceNowAPIError(MsgNoCloneHistory(target), None, NonePayload)))
    ELSE Finish(Returned("get_clone_info", <<records[1]>>))

\* get_clone_info falling back again when the fallback table is invalid too.
after_get_clone_info_FallbackAgain(ph, err, records) ==
    IF err # NoError
    THEN IF FallbackEligible(err)
         THEN Continue("fallback", CloneFallbackQuery, NoFallback)
         ELSE Finish(Raised("get_clone_info", err))
    ELSE IF ph = "primary"
    THEN IF records # <<>>
         THEN Finish(Returned("get_clone_info", <<records[1]>>))
         ELSE Continue("fallback", CloneFallbackQuery, NoFallback)
    ELSE clone_info_or_not_found(target_instance, records)

\* get_clone_info, from the return of a query_table call on
after_get_clone_info(ph, err, records) ==
    IF ph = "primary"
    THEN IF err # NoError
         THEN IF FallbackEligible(err)
              THEN Continue("fallback", CloneFallbackQuery, NoFallback)
              ELSE Finish(Raised("get_clone_info", err))
         ELSE IF records # <<>>
              THEN Finish(Returned("get_clone_info", <<records[1]>>))
              ELSE Continue("fallback", CloneFallbackQuery, NoFallback)
    ELSE IF err # NoError
         THEN Finish(Raised("get_clone_info", err))
         ELSE clone_info_or_not_found(target_instance, records)

\* _fetch_records_by_sys_ids: the query of the chunk that begins at start
ChunkQuery(option_ids, start) ==
    NewQuery("item_option_new", Len(Chunk(option_ids, start)), DefaultBatchSize)

\* get_catalog_item_variables with its fallback resolver, from the return
\* of a query_table call on
after_get_catalog_item_variables(ph, f, err, records) ==
    IF ph = "primary"
    THEN IF err # NoError
         THEN IF FallbackEligible(err)
              THEN Continue("options",
                            NewQuery("sc_item_option", None, OptionBatchSize), NoFallback)
              ELSE Finish(Raised("get_catalog_item_variables", err))
         ELSE Finish(Returned("get_catalog_item_variables", records))
    ELSE IF err # NoError
    THEN Finish(Raised("get_catalog_item_variables", err))
    ELSE IF ph = "options"
    THEN LET ids == OptionIds(records, <<>>)
         IN  IF ids = <<>>
             THEN Finish(Returned("get_catalog_item_variables", <<>>))
             ELSE Continue("lookup", ChunkQuery(ids, 0),
                           [option_ids |-> ids, start |-> 0, chunk |-> Chunk(ids, 0),
                            results |-> {}])
    ELSE LET results == Store(f.results, records)
             start == f.start + ChunkSize
         IN  IF start < Len(f.option_ids)
             THEN Continue("lookup", ChunkQuery(f.option_ids, start),
                           [f EXCEPT !.start = start,
                                     !.chunk = Chunk(f.option_ids, start),
                                     !.results = results])
             ELSE Finish(Returned("get_catalog_item_variables",
                                  Ordered(f.option_ids, results)))

\* The identifiers get_catalog_item and validate are called with, and the
\* characters each is made of.
SysIdA == "0123456789abcdefABCDEF0123456789"
ShortHex == "0123456789abcdef0123456789abcde"
LongHex == "0123456789abcdef0123456789abcdef0"
NotHex == "0123456789abcdefg123456789abcdef"
ItemName == "Laptop Request"
Identifiers == {SysIdA, ShortHex, LongHex, NotHex, ItemName, ""}

Chars(value) ==
    IF value = SysIdA THEN <<"0","1","2","3","4","5","6","7","8","9","a","b","c","d","e","f","A","B","C","D","E","F","0","1","2","3","4","5","6","7","8","9">>
    ELSE IF value = LongHex THEN <<"0","1","2","3","4","5","6","7","8","9","a","b","c","d","e","f","0","1","2","3","4","5","6","7","8","9","a","b","c","d","e","f","0">>
    ELSE IF value = ShortHex THEN <<"0","1","2","3","4","5","6","7","8","9","a","b","c","d","e","f","0","1","2","3","4","5","6","7","8","9","a","b","c","d","e">>
    ELSE IF value = NotHex THEN <<"0","1","2","3","4","5","6","7","8","9","a","b","c","d","e","f","g","1","2","3","4","5","6","7","8","9","a","b","c","d","e","f">>
    ELSE IF value = ItemName THEN <<"L","a","p","t","o","p"," ","R","e","q","u","e","s","t">>
    ELSE <<>>

HexDigits == {"0","1","2","3","4","5","6","7","8","9",
              "a","b","c","d","e","f","A","B","C","D","E","F"}

\* The test of the characters without the test of their number.
is_sys_id_AnyLength(value) ==
    /\ Chars(value) # <<>>
    /\ \A i \in 1..Len(Chars(value)) : Chars(value)[i] \in HexDigits

\* is_sys_id: re.fullmatch(r"[0-9a-fA-F]{32}", value or "")
is_sys_id(value) ==
    /\ Len(Chars(value)) = 32
    /\ \A i \in 1..Len(Chars(value)) : Chars(value)[i] \in HexDigits

\* f"Catalog item {sys_id_or_name} not found"
MsgCatalogItemNotFound(id) ==
    IF id = SysIdA THEN "Catalog item 0123456789abcdefABCDEF0123456789 not found"
    ELSE "Catalog item not found"

\* f"Catalog item named '{sys_id_or_name}' not found"
MsgCatalogItemNamedNotFound(id) ==
    IF id = ItemName THEN "Catalog item named 'Laptop Request' not found"
    ELSE IF id = ShortHex THEN "Catalog item named '0123456789abcdef0123456789abcde' not found"
    ELSE IF id = LongHex THEN "Catalog item named '0123456789abcdef0123456789abcdef0' not found"
    ELSE IF id = NotHex THEN "Catalog item named '0123456789abcdefg123456789abcdef' not found"
    ELSE "Catalog item named '' not found"

\* get_catalog_item, sys_id branch: what the method makes of the outcome of
\* get_record
\*   except ServiceNowAPIError as exc: raise ServiceNowAPIError(
\*       f"Catalog item ... not found", status_code=..., payload=...) from exc
catalog_item_by_sys_id(id, got) ==
    IF got.state = "returned" THEN Returned("get_catalog_item", got.value)
    ELSE IF got.err.kind = "ServiceNowAPIError"
    THEN Raised("get_catalog_item",
                ServiceNowAPIError(MsgCatalogItemNotFound(id),
                                   got.err.status_code, got.err.payload))
    ELSE Raised("get_catalog_item", got.err)

\* get_catalog_item, name branch, from the return of its query_table call on
after_get_catalog_item(id, err, records) ==
    IF err # NoError THEN Finish(Raised("get_catalog_item", err))
    ELSE IF records = <<>>
    THEN Finish(Raised("get_catalog_item",
                       ServiceNowAPIError(MsgCatalogItemNamedNotFound(id), 404, NonePayload)))
    ELSE Finish(Returned("get_catalog_item", <<records[1]>>))

\* The caller of query_table handed what was collected when the call fails.
After_PartialOnError(o, ph, f, err, records) ==
    IF o = "get_clone_info" THEN after_get_clone_info(ph, err, records)
    ELSE IF o = "get_catalog_item_variables"
    THEN after_get_catalog_item_variables(ph, f, err, records)
    ELSE IF o = "get_catalog_item" THEN after_get_catalog_item(identifier, err, records)
    ELSE Finish(Returned(o, records))

After(o, ph, f, err, records) ==
    IF o = "get_clone_info" THEN after_get_clone_info(ph, err, records)
    ELSE IF o = "get_catalog_item_variables"
    THEN after_get_catalog_item_variables(ph, f, err, records)
    ELSE IF o = "get_catalog_item" THEN after_get_catalog_item(identifier, err, records)
    ELSE IF err # NoError THEN Finish(Raised(o, err)) ELSE Finish(Returned(o, records))

\* --------------------------------------------------------- catalog validator
\* A field of a record of the table API as Python sees it: the key is missing
\* (absent), or its value is None, a bool, a str (s: its characters), an int,
\* or a reference object (a dict with n keys).
Absent == [type |-> "absent", b |-> FALSE, s |-> <<>>, n |-> 0]
PyNone == [type |-> "none", b |-> FALSE, s |-> <<>>, n |-> 0]
PyBool(b) == [type |-> "bool", b |-> b, s |-> <<>>, n |-> 0]
PyStr(s) == [type |-> "str", b |-> FALSE, s |-> s, n |-> 0]
PyInt(n) == [type |-> "int", b |-> FALSE, s |-> <<>>, n |-> n]
PyDict(n) == [type |-> "dict", b |-> FALSE, s |-> <<>>, n |-> n]

\* mapping.get(key)
Get(v) == IF v.type = "absent" THEN PyNone ELSE v

\* mapping.get(key, default)
GetOr(v, default) == IF v.type = "absent" THEN default ELSE v

\* bool(value)
PyTruthy(v) ==
    IF v.type = "bool" THEN v.b
    ELSE IF v.type = "str" THEN v.s # <<>>
    ELSE IF v.type \in {"int", "dict"} THEN v.n # 0
    ELSE FALSE

\* a or b
PyOr(a, b) == IF PyTruthy(a) THEN a ELSE b

\* str.strip()
WhiteSpace == {" ", "\t", "\n"}

RECURSIVE LStrip(_)
LStrip(s) == IF s # <<>> /\ Head(s) \in WhiteSpace THEN LStrip(Tail(s)) ELSE s

RECURSIVE RStrip(_)
RStrip(s) ==
    IF s # <<>> /\ s[Len(s)] \in WhiteSpace THEN RStrip(SubSeq(s, 1, Len(s) - 1)) ELSE s

Strip(s) == RStrip(LStrip(s))

\* token in text
Contains(text, token) ==
    \E i \in 1..(Len(text) - Len(token) + 1) : SubSeq(text, i, i + Len(token) - 1) = token

\* (mapping.get(key) or "").strip(): the value .strip() is called on, whether
\* it has that method, and what the call gives
Text(v) == PyOr(Get(v), PyStr(<<>>))
CanStrip(v) == Text(v).type = "str"
Stripped(v) == Strip(Text(v).s)

PROHIBITED_NAME_TOKENS == {<<"c","o","p","y"," ","o","f">>, <<"t","e","m","p","l","a","t","e">>, <<"d","r","a","f","t">>, <<"t","e","s","t">>}
WEAK_DESCRIPTION_TOKENS == {<<"t","b","d">>, <<"l","o","r","e","m">>, <<"t","e","s","t">>, <<"s","a","m","p","l","e">>}
MinDescriptionLength == 15     \* if len(short_description) < 15
TrueStrings == {<<"t","r","u","e">>, <<"1">>, <<"y","e","s">>}

\* The coercion comparing the string as it is written.
to_bool_CaseSensitive(value) ==
    IF value.type = "bool" THEN value.b
    ELSE IF value.type = "str" THEN value.s \in TrueStrings
    ELSE PyTruthy(value)

\* _to_bool
to_bool(value) ==
    IF value.type = "bool" THEN value.b
    ELSE IF value.type = "str" THEN Lower(value.s) \in TrueStrings
    ELSE PyTruthy(value)

\* ValidationCheck(name, passed, severity, details) without its details
ValidationCheck(name, passed, severity) ==
    [name |-> name, passed |-> passed, severity |-> severity]

\* The check taking a missing "active" key for an inactive item.
check_active_DefaultFalse(item) ==
    ValidationCheck("item_active", to_bool(GetOr(item.active, PyBool(FALSE))), "ERROR")

\* _check_active
check_active(item) ==
    ValidationCheck("item_active", to_bool(GetOr(item.active, PyBool(TRUE))), "ERROR")

\* The check looking for the tokens in the name as it is written.
check_display_name_CaseSensitive(item) ==
    IF \E token \in PROHIBITED_NAME_TOKENS : Contains(Stripped(item.name), token)
    THEN ValidationCheck("display_name_clean", FALSE, "ERROR")
    ELSE ValidationCheck("display_name_clean", TRUE, "INFO")

\* _check_display_name
check_display_name(item) ==
    IF \E token \in PROHIBITED_NAME_TOKENS : Contains(Lower(Stripped(item.name)), token)
    THEN ValidationCheck("display_name_clean", FALSE, "ERROR")
    ELSE ValidationCheck("display_name_clean", TRUE, "INFO")

\* The check taking a description of exactly the minimum length for short.
check_short_description_AtMost(item) ==
    IF Stripped(item.short_description) = <<>>
    THEN ValidationCheck("short_description_present", FALSE, "ERROR")
    ELSE IF Len(Stripped(item.short_description)) <= MinDescriptionLength
    THEN ValidationCheck("short_description_length", FALSE, "WARNING")
    ELSE IF \E token \in WEAK_DESCRIPTION_TOKENS :
                Contains(Lower(Stripped(item.short_description)), token)
    THEN ValidationCheck("short_description_quality", FALSE, "WARNING")
    ELSE ValidationCheck("short_description_quality", TRUE, "INFO")

\* _check_short_description
check_short_description(item) ==
    IF Stripped(item.short_description) = <<>>
    THEN ValidationCheck("short_description_present", FALSE, "ERROR")
    ELSE IF Len(Stripped(item.short_description)) < MinDescriptionLength
    THEN ValidationCheck("short_description_length", FALSE, "WARNING")
    ELSE IF \E token \in WEAK_DESCRIPTION_TOKENS :
                Contains(Lower(Stripped(item.short_description)), token)
    THEN ValidationCheck("short_description_quality", FALSE, "WARNING")
    ELSE ValidationCheck("short_description_quality", TRUE, "INFO")

\* _check_workflow
check_workflow(item) ==
    IF PyTruthy(PyOr(Get(item.workflow), Get(item.flow_designer_flow)))
    THEN ValidationCheck("workflow_attached", TRUE, "INFO")
    ELSE ValidationCheck("workflow_attached", FALSE, "ERROR")

\* _check_category
check_category(item) ==
    IF PyTruthy(PyOr(Get(item.category), Get(item.categories)))
    THEN ValidationCheck("category_set", TRUE, "INFO")
    ELSE ValidationCheck("category_set", FALSE, "ERROR")

\* _check_media
check_media(item) ==
    IF PyTruthy(Get(item.picture)) \/ PyTruthy(Get(item.icon))
    THEN ValidationCheck("media_present", TRUE, "INFO")
    ELSE ValidationCheck("media_present", FALSE, "WARNING")

\* _check_variables: the tests of the three list comprehensions
MissingQuestion(var) == Stripped(var.question_text) = <<>>
Inactive(var) == ~to_bool(GetOr(var.active, PyBool(TRUE)))
Mandatory(var) == to_bool(GetOr(var.mandatory, PyBool(FALSE)))
MandatoryMissingHelp(var) == Mandatory(var) /\ Stripped(var.help_text) = <<>>

\* The checks with a variables_defined check in every case.
check_variables_WithDefined(variables) ==
    <<ValidationCheck("variables_defined", variables # <<>>, "WARNING"),
      ValidationCheck("variable_question_text",
                      \A i \in 1..Len(variables) : ~MissingQuestion(variables[i]), "ERROR"),
      ValidationCheck("variable_active_state",
                      \A i \in 1..Len(variables) : ~Inactive(variables[i]), "WARNING"),
      ValidationCheck("variable_help_text",
                      \A i \in 1..Len(variables) : ~MandatoryMissingHelp(variables[i]), "WARNING")>>

\* _check_variables
check_variables(variables) ==
    IF variables = <<>>
    THEN <<ValidationCheck("variables_defined", FALSE, "WARNING")>>
    ELSE <<IF \E i \in 1..Len(variables) : MissingQuestion(variables[i])
           THEN ValidationCheck("variable_question_text", FALSE, "ERROR")
           ELSE ValidationCheck("variable_question_text", TRUE, "INFO"),
           IF \E i \in 1..Len(variables) : Inactive(variables[i])
           THEN ValidationCheck("variable_active_state", FALSE, "WARNING")
           ELSE ValidationCheck("variable_active_state", TRUE, "INFO"),
           IF \E i \in 1..Len(variables) : MandatoryMissingHelp(variables[i])
           THEN ValidationCheck("variable_help_text", FALSE, "WARNING")
           ELSE ValidationCheck("variable_help_text", TRUE, "INFO")>>

\* The exception an expression of validate raises, "none" when it raises
\* none.  (... or "").strip() raises AttributeError on a value that is not a
\* str; var["name"] raises KeyError on a record without that key.
StripError(v) == IF CanStrip(v) THEN "none" ELSE "AttributeError"
NameError(var) == IF var.name.type = "absent" THEN "KeyError" ELSE "none"

\* _check_variables: what evaluating one element of each comprehension raises
QuestionError(var) ==
    IF ~CanStrip(var.question_text) THEN "AttributeError"
    ELSE IF MissingQuestion(var) THEN NameError(var) ELSE "none"
ActiveError(var) == IF Inactive(var) THEN NameError(var) ELSE "none"
HelpError(var) ==
    IF ~Mandatory(var) THEN "none"
    ELSE IF ~CanStrip(var.help_text) THEN "AttributeError"
    ELSE IF MandatoryMissingHelp(var) THEN NameError(var) ELSE "none"

\* The first exception raised in a sequence of evaluations.
FirstError(errors) ==
    IF \A i \in 1..Len(errors) : errors[i] = "none" THEN "none"
    ELSE errors[CHOOSE i \in 1..Len(errors) :
                    errors[i] # "none" /\ \A j \in 1..(i - 1) : errors[j] = "none"]

\* _check_variables: the exception it raises
check_variables_error(variables) ==
    FirstError([i \in 1..Len(variables) |-> QuestionError(variables[i])]
               \o [i \in 1..Len(variables) |-> ActiveError(variables[i])]
               \o [i \in 1..Len(variables) |-> HelpError(variables[i])])

\* _summarise_variables: the test of missing_help
\*   (var.get("help_text") or var.get("instructions") or "")
HelpOrInstructions(var) == PyOr(PyOr(Get(var.help_text), Get(var.instructions)), PyStr(<<>>))
SummaryMissingHelp(var) ==
    to_bool(Get(var.mandatory)) /\ Strip(HelpOrInstructions(var).s) = <<>>

Count(variables, Test(_)) == Cardinality({i \in 1..Len(variables) : Test(variables[i])})

SummaryMandatory(var) == to_bool(Get(var.mandatory))

\* _summarise_variables without its sample_names
summarise_variables(variables) ==
    [total |-> Len(variables),
     mandatory |-> Count(variables, SummaryMandatory),
     inactive |-> Count(variables, Inactive),
     missing_question_text |-> Count(variables, MissingQuestion),
     mandatory_missing_help |-> Count(variables, SummaryMissingHelp)]

\* _summarise_variables: the exception it raises
SummaryError(var) ==
    IF ~CanStrip(var.question_text) THEN "AttributeError"
    ELSE IF to_bool(Get(var.mandatory)) /\ HelpOrInstructions(var).type # "str"
    THEN "AttributeError" ELSE "none"
summarise_variables_error(variables) ==
    FirstError([i \in 1..Len(variables) |-> SummaryError(variables[i])])

\* _empty_variable_summary
empty_variable_summary ==
    [total |-> 0, mandatory |-> 0, inactive |-> 0, missing_question_text |-> 0,
     mandatory_missing_help |-> 0]

\* The status that takes failing warnings for passed.
determine_overall_status_ErrorsOnly(checks) ==
    IF \E i \in 1..Len(checks) : ~checks[i].passed /\ checks[i].severity = "ERROR"
    THEN "FAILED"
    ELSE "PASSED"

\* determine_overall_status
determine_overall_status(checks) ==
    IF \E i \in 1..Len(checks) : ~checks[i].passed /\ checks[i].severity = "ERROR"
    THEN "FAILED"
    ELSE IF \E i \in 1..Len(checks) : ~checks[i].passed /\ checks[i].severity = "WARNING"
    THEN "PASSED_WITH_WARNINGS"
    ELSE "PASSED"

\* CatalogItemValidationResult, or the exception raised instead of it.
\* by: "validate" for a call of validate, "main" for the loop body of main.
NoResult ==
    [state |-> "none", by |-> "none", catalog_item_sys_id |-> PyNone, checks |-> <<>>,
     overall_status |-> "", variable_summary |-> empty_variable_summary, err |-> NoError]

RaisedResult(err) == [NoResult EXCEPT !.state = "raised", !.err = err]

\* How a call of the client made by validate ends.
NoItem ==
    [sys_id |-> Absent, active |-> Absent, name |-> Absent, short_description |-> Absent,
     workflow |-> Absent, flow_designer_flow |-> Absent, category |-> Absent,
     categories |-> Absent, picture |-> Absent, icon |-> Absent]
NoItemFetch == [state |-> "none", item |-> NoItem, err |-> NoError]
NoVariablesFetch == [state |-> "none", variables |-> <<>>, err |-> NoError]

\* validate: the checks it appends, in order
checks_of(item, variables) ==
    <<check_active(item), check_display_name(item), check_short_description(item),
      check_workflow(item), check_category(item), check_media(item)>>
    \o check_variables(variables)

\* validate: the exception the checks on the item raise
item_checks_error(item) ==
    FirstError(<<StripError(item.name), StripError(item.short_description)>>)

\* validate
validate(ifetch, vfetch) ==
    IF ifetch.state = "raised" THEN RaisedResult(ifetch.err)
    ELSE IF ifetch.item.sys_id.type = "absent"
    THEN RaisedResult(OtherError("KeyError", "sys_id"))
    ELSE IF vfetch.state = "raised" THEN RaisedResult(vfetch.err)
    ELSE IF item_checks_error(ifetch.item) # "none"
    THEN RaisedResult(OtherError(item_checks_error(ifetch.item), "strip"))
    ELSE IF check_variables_error(vfetch.variables) # "none"
    THEN RaisedResult(OtherError(check_variables_error(vfetch.variables), "name"))
    ELSE IF summarise_variables_error(vfetch.variables) # "none"
    THEN RaisedResult(OtherError(summarise_variables_error(vfetch.variables), "strip"))
    ELSE [state |-> "returned", by |-> "none",
          catalog_item_sys_id |-> ifetch.item.sys_id,
          checks |-> checks_of(ifetch.item, vfetch.variables),
          overall_status |-> determine_overall_status(checks_of(ifetch.item, vfetch.variables)),
          variable_summary |-> summarise_variables(vfetch.variables),
          err |-> NoError]

\* main: the result appended when validate raises ServiceNowAPIError
error_result(id) ==
    [state |-> "returned", by |-> "none",
     catalog_item_sys_id |-> PyStr(Chars(id)),
     checks |-> <<ValidationCheck("api_error", FALSE, "ERROR")>>,
     overall_status |-> "FAILED",
     variable_summary |-> empty_variable_summary,
     err |-> NoError]

\* main: the body of the loop over the catalog items
\*   try: result = validator.validate(identifier)
\*   except ServiceNowAPIError as exc: ... error_result
main_loop_body(id, validated) ==
    IF validated.state = "raised" /\ validated.err.kind = "ServiceNowAPIError"
    THEN error_result(id)
    ELSE validated

\* ------------------------------------------------------ validator inputs
\* The values the fields of the records take.
ActiveValues ==
    {Absent, PyNone, PyBool(TRUE), PyBool(FALSE), PyStr(<<"T","R","U","E">>), PyStr(<<"Y","e","s">>), PyStr(<<"1">>), PyStr(<<"t","r","u","e">>),
     PyStr(<<"f","a","l","s","e">>), PyStr(<<>>), PyStr(<<"0">>), PyStr(<<" ","t","r","u","e">>), PyStr(<<"o","n">>), PyInt(1), PyInt(0), PyDict(2), PyDict(0)}

NameValues ==
    {Absent, PyNone, PyStr(<<"L","a","p","t","o","p"," ","R","e","q","u","e","s","t">>), PyStr(<<"C","o","p","y"," ","o","f"," ","L","a","p","t","o","p"," ","R","e","q","u","e","s","t">>), PyStr(<<" "," ","N","e","w"," ","T","E","M","P","L","A","T","E"," ">>), PyStr(<<"D","r","a","f","t">>), PyStr(<<"L","a","t","e","s","t"," ","L","a","p","t","o","p">>),
     PyStr(<<"C","o","p"," ","y"," ","o","f"," ","T","e","s"," ","t">>), PyInt(7)}

DescriptionValues ==
    {Absent, PyStr(<<" "," "," ">>), PyStr(<<"T","o","o"," ","s","h","o","r","t">>), PyStr(<<"T","e","s","t"," ","i","t","e","m">>), PyStr(<<"O","r","d","e","r"," ","a"," ","t","a","b","l","e","t">>), PyStr(<<" "," ","O","r","d","e","r"," ","a"," ","p","h","o","n","e"," "," ">>), PyStr(<<"O","r","d","e","r"," ","a"," ","l","a","p","t","o","p",".">>), PyStr(<<"D","e","s","c","r","i","p","t","i","o","n",":"," ","T","B","D">>),
     PyStr(<<"G","e","t"," ","t","h","e"," ","l","a","t","e","s","t"," ","p","h","o","n","e">>), PyStr(<<"R","e","q","u","e","s","t"," ","a"," ","n","e","w"," ","l","a","p","t","o","p">>)}

\* (workflow, flow_designer_flow), (category, categories), (picture, icon)
FieldPairs ==
    {<<Absent, Absent>>, <<PyDict(2), Absent>>, <<PyStr(<<>>), PyStr(<<"f","l","o","w">>)>>, <<PyNone, PyNone>>}

SysIdValues == {Absent, PyStr(Chars(SysIdA))}

\* An item with everything in place but the three fields given.
ItemWith(active, name, short_description) ==
    [sys_id |-> PyStr(Chars(SysIdA)), active |-> active, name |-> name,
     short_description |-> short_description,
     workflow |-> PyDict(2), flow_designer_flow |-> Absent,
     category |-> PyStr(<<"h","a","r","d","w","a","r","e">>), categories |-> Absent,
     picture |-> Absent, icon |-> PyStr(<<"i","c","o","n",".","p","n","g">>)]

GoodItem == ItemWith(PyBool(TRUE), PyStr(<<"L","a","p","t","o","p"," ","R","e","q","u","e","s","t">>), PyStr(<<"R","e","q","u","e","s","t"," ","a"," ","n","e","w"," ","l","a","p","t","o","p">>))

Items ==
    {ItemWith(a, n, d) : a \in ActiveValues, n \in NameValues, d \in DescriptionValues}
    \cup {[GoodItem EXCEPT !.sys_id = s, !.name = n,
                           !.workflow = w[1], !.flow_designer_flow = w[2],
                           !.category = c[1], !.categories = c[2],
                           !.picture = m[1], !.icon = m[2]] :
            s \in SysIdValues, n \in {PyStr(<<"L","a","p","t","o","p"," ","R","e","q","u","e","s","t">>), PyStr(<<"C","o","p","y"," ","o","f"," ","L","a","p","t","o","p"," ","R","e","q","u","e","s","t">>)},
            w \in FieldPairs, c \in FieldPairs, m \in FieldPairs}

\* (mandatory, help_text, instructions) of a variable
HelpCases ==
    {<<Absent, Absent, Absent>>,
     <<PyStr(<<"t","r","u","e">>), PyStr(<<"h","e","l","p">>), Absent>>,
     <<PyBool(TRUE), PyStr(<<>>), PyStr(<<"S","e","e"," ","K","B">>)>>,
     <<PyStr(<<"1">>), PyNone, PyStr(<<" "," "," ">>)>>}

\* Variables with a name, and variables without one.
Variables ==
    {[name |-> PyStr(<<"v">>), question_text |-> q, active |-> a,
      mandatory |-> h[1], help_text |-> h[2], instructions |-> h[3]] :
        q \in {PyStr(<<" "," "," ">>), PyStr(<<"Q","?">>)},
        a \in {Absent, PyStr(<<"f","a","l","s","e">>)}, h \in HelpCases}
    \cup {[name |-> Absent, question_text |-> q, active |-> a,
            mandatory |-> h[1], help_text |-> h[2], instructions |-> Absent] :
            q \in {PyStr(<<" "," "," ">>), PyStr(<<"Q","?">>)},
            a \in {PyBool(TRUE), PyBool(FALSE)},
            h \in {<<Absent, Absent>>, <<PyBool(TRUE), Absent>>}}

GoodVariable ==
    [name |-> PyStr(<<"v">>), question_text |-> PyStr(<<"Q","?">>), active |-> PyBool(TRUE),
     mandatory |-> PyBool(FALSE), help_text |-> Absent, instructions |-> Absent]

ItemErrors ==
    {ServiceNowAPIError(MsgCatalogItemNotFound(SysIdA), 401, NonePayload),
     ServiceNowAPIError(MsgCatalogItemNamedNotFound(ItemName), 404, NonePayload),
     OtherError("RequestException", "timeout")}

VariablesErrors ==
    {ServiceNowAPIError("ServiceNow API request failed", 500, NonePayload),
     OtherError("ValueError", "catalog_item_sys_id must be a valid sys_id"),
     OtherError("RequestException", "timeout")}

ItemReturned(item) == [state |-> "returned", item |-> item, err |-> NoError]
VariablesReturned(variables) == [state |-> "returned", variables |-> variables, err |-> NoError]

\* The ways the two calls of the client can end: the variables are asked
\* for only after an item with a sys_id has come back.
FailedFetches ==
    {<<[state |-> "raised", item |-> NoItem, err |-> e], NoVariablesFetch>> : e \in ItemErrors}
    \cup {<<ItemReturned(GoodItem), [state |-> "raised", variables |-> <<>>, err |-> e]>> :
            e \in VariablesErrors}

\* n: the most variables an item has
Fetches(n) ==
    FailedFetches
    \cup {<<ItemReturned(i), NoVariablesFetch>> : i \in {i \in Items : i.sys_id.type = "absent"}}
    \cup {<<ItemReturned(i), VariablesReturned(v)>> :
            i \in {i \in Items : i.sys_id.type # "absent"}, v \in {<<>>, <<GoodVariable>>}}
    \cup {<<ItemReturned(i), VariablesReturned(v)>> :
            i \in {GoodItem}, v \in SeqsUpTo(Variables, n)}

\* main: the command line before it is parsed
NoArgs == [catalog_items |-> <<>>, catalog_limit |-> 0]

\* The command lines of the validator: one identifier or more (nargs="+"),
\* and --catalog-limit, 1 when it is left out.
CommandLines ==
    {[catalog_items |-> c, catalog_limit |-> l] :
        c \in SeqsUpTo({SysIdA, ItemName}, MaxIdentifiers) \ {<<>>},
        l \in {0, 1, MaxIdentifiers}}

\* The ways the two calls of the client end in one pass of the loop of main.
BatchFetches ==
    FailedFetches
    \cup {<<ItemReturned(GoodItem), VariablesReturned(v)>> : v \in {<<>>, <<GoodVariable>>}}

\* The lists of checks determine_overall_status is applied to on its own.
CheckLists ==
    SeqsUpTo({ValidationCheck("check", p, s) :
                p \in BOOLEAN, s \in {"ERROR", "WARNING", "INFO"}}, MaxChecks)

\* ------------------------------------------------------- clone date check
DEFAULT_STALE_DAYS == 30

Digits == <<"0","1","2","3","4","5","6","7","8","9">>
IsDigit(c) == \E i \in 1..10 : Digits[i] = c
DigitValue(c) == (CHOOSE i \in 1..10 : Digits[i] = c) - 1

AllDigits(s) == s # <<>> /\ \A i \in 1..Len(s) : IsDigit(s[i])

\* int() of a string of digits
RECURSIVE Number(_)
Number(s) ==
    IF s = <<>> THEN 0
    ELSE 10 * Number(SubSeq(s, 1, Len(s) - 1)) + DigitValue(s[Len(s)])

IsLeap(y) == (y % 4 = 0 /\ y % 100 # 0) \/ y % 400 = 0

DaysInMonth(y, m) ==
    IF m = 2 THEN (IF IsLeap(y) THEN 29 ELSE 28)
    ELSE IF m \in {4, 6, 9, 11} THEN 30 ELSE 31

\* Leap years before year y.
LeapsBefore(y) == ((y - 1) \div 4) - ((y - 1) \div 100) + ((y - 1) \div 400)

RECURSIVE DaysBeforeMonth(_, _)
DaysBeforeMonth(y, m) ==
    IF m = 1 THEN 0 ELSE DaysBeforeMonth(y, m - 1) + DaysInMonth(y, m - 1)

\* Days from 1970-01-01 to the date.
DaysFromEpoch(y, m, d) ==
    365 * (y - 1970) + (LeapsBefore(y) - LeapsBefore(1970)) + DaysBeforeMonth(y, m) + (d - 1)

\* A point in time: whole seconds since 1970-01-01T00:00:00Z and microseconds.
Instant(y, m, d, hh, mm, ss, us) ==
    [s |-> DaysFromEpoch(y, m, d) * 86400 + hh * 3600 + mm * 60 + ss, us |-> us]

NoInstant == [s |-> 0, us |-> -1]

\* %f: up to six digits, padded with zeros on the right
RECURSIVE Micro(_)
Micro(s) == IF Len(s) >= 6 THEN Number(s) ELSE Micro(Append(s, "0"))

\* %z: "Z", or a sign followed by HHMM or HH:MM; the offset in seconds,
\* NoOffset when the text is no offset.
NoOffset == 100000
Offset(s) ==
    IF s = <<"Z">> THEN 0
    ELSE IF Len(s) \in {5, 6} /\ s[1] \in {"+", "-"}
            /\ (Len(s) = 6 => s[4] = ":")
            /\ AllDigits(SubSeq(s, 2, 3)) /\ AllDigits(SubSeq(s, Len(s) - 1, Len(s)))
            /\ Number(SubSeq(s, Len(s) - 1, Len(s))) < 60
    THEN (IF s[1] = "-" THEN -1 ELSE 1)
         * (Number(SubSeq(s, 2, 3)) * 3600 + Number(SubSeq(s, Len(s) - 1, Len(s))) * 60)
    ELSE NoOffset

\* The part of a timestamp after "YYYY-MM-DD HH:MM:SS": the fraction that
\* "%f" takes (without the point) and the rest, which "%z" has to take.
FractionLength(rest) ==
    IF rest = <<>> \/ rest[1] # "." THEN 0
    ELSE LET n == CHOOSE n \in 0..Len(rest) - 1 :
                    /\ \A i \in 2..n + 1 : IsDigit(rest[i])
                    /\ (n + 2 <= Len(rest) => ~IsDigit(rest[n + 2]))
         IN  Min(n, 6)

\* datetime.strptime(value, fmt) for the four formats in turn, on the
\* zero-padded timestamps the platform writes; ok = FALSE: every format
\* raised ValueError.  A result without tzinfo is taken as UTC, one with an
\* offset is converted to UTC.
strptime_formats(v) ==
    LET head == SubSeq(v, 1, Min(19, Len(v)))
        rest == SubSeq(v, 20, Len(v))
        shaped == /\ Len(v) >= 19
                  /\ AllDigits(SubSeq(v, 1, 4)) /\ v[5] = "-"
                  /\ AllDigits(SubSeq(v, 6, 7)) /\ v[8] = "-"
                  /\ AllDigits(SubSeq(v, 9, 10)) /\ v[11] = " "
                  /\ AllDigits(SubSeq(v, 12, 13)) /\ v[14] = ":"
                  /\ AllDigits(SubSeq(v, 15, 16)) /\ v[17] = ":"
                  /\ AllDigits(SubSeq(v, 18, 19))
        y == Number(SubSeq(v, 1, 4))
        m == Number(SubSeq(v, 6, 7))
        d == Number(SubSeq(v, 9, 10))
        hh == Number(SubSeq(v, 12, 13))
        mm == Number(SubSeq(v, 15, 16))
        ss == Number(SubSeq(v, 18, 19))
        valid == /\ y >= 1 /\ m \in 1..12 /\ d \in 1..DaysInMonth(y, m)
                 /\ hh < 24 /\ mm < 60 /\ ss < 60
        n == FractionLength(rest)
        hasFraction == rest # <<>> /\ rest[1] = "." /\ n >= 1
        us == IF hasFraction THEN Micro(SubSeq(rest, 2, n + 1)) ELSE 0
        zone == IF hasFraction THEN SubSeq(rest, n + 2, Len(rest)) ELSE rest
        off == IF zone = <<>> THEN 0 ELSE Offset(zone)
    IN  IF ~shaped THEN [ok |-> FALSE, at |-> NoInstant]
        ELSE IF ~valid THEN [ok |-> FALSE, at |-> NoInstant]
        ELSE IF rest # <<>> /\ rest[1] = "." /\ ~hasFraction THEN [ok |-> FALSE, at |-> NoInstant]
        ELSE IF off = NoOffset THEN [ok |-> FALSE, at |-> NoInstant]
        ELSE [ok |-> TRUE,
              at |-> [s |-> Instant(y, m, d, hh, mm, ss, us).s - off, us |-> us]]

\* parse_servicenow_date.  state "none": it returns None; "raised": it raises
\* (ValueError for a string no format takes, TypeError for a value that is
\* no string).
parse_servicenow_date(value) ==
    IF ~PyTruthy(value) THEN [state |-> "none", at |-> NoInstant, err |-> "none"]
    ELSE IF value.type # "str" THEN [state |-> "raised", at |-> NoInstant, err |-> "TypeError"]
    ELSE IF strptime_formats(value.s).ok
    THEN [state |-> "parsed", at |-> strptime_formats(value.s).at, err |-> "none"]
    ELSE [state |-> "raised", at |-> NoInstant, err |-> "ValueError"]

\* (now_utc - finished_at).days: whole days, rounded towards minus infinity
Days(t, finished_at) ==
    LET borrow == IF t.us < finished_at.us THEN 1 ELSE 0
    IN  (t.s - finished_at.s - borrow) \div 86400

\* is_stale = days_since > stale_after_days
IsStale(days_since, stale_days) == days_since > stale_days

\* CloneStatus, or the exception raised instead of it.  days_since_clone and
\* last_clone_date are None when known is FALSE; warning_message is None
\* ("none"), the text about the missing timestamp ("missing") or the text
\* about the stale clone ("stale").
NoCloneStatus ==
    [state |-> "none", known |-> FALSE, last_clone_date |-> NoInstant, days_since_clone |-> 0,
     is_stale |-> FALSE, warning_message |-> "none", err |-> NoError]

\* record.get("completed") or record.get("finished")
\* or record.get("sys_created_on") or record.get("scheduled")
timestamp_value(record) ==
    PyOr(PyOr(PyOr(Get(record.completed), Get(record.finished)),
              Get(record.sys_created_on)), Get(record.scheduled))

\* evaluate_clone_status, given how client.get_clone_info ends and the time
\* datetime.now(tz=UTC) gives
evaluate_clone_status(fetch, stale_days, now_at) ==
    IF fetch.state = "raised" THEN [NoCloneStatus EXCEPT !.state = "raised", !.err = fetch.err]
    ELSE LET finished_at == parse_servicenow_date(timestamp_value(fetch.record))
             days_since == Days(now_at, finished_at.at)
         IN  IF finished_at.state = "raised"
             THEN [NoCloneStatus EXCEPT !.state = "raised",
                                        !.err = OtherError(finished_at.err, "strptime")]
             ELSE IF finished_at.state = "none"
             THEN [NoCloneStatus EXCEPT !.state = "returned", !.is_stale = TRUE,
                                        !.warning_message = "missing"]
             ELSE [state |-> "returned", known |-> TRUE,
                   last_clone_date |-> finished_at.at,
                   days_since_clone |-> days_since,
                   is_stale |-> IsStale(days_since, stale_days),
                   warning_message |-> IF IsStale(days_since, stale_days) THEN "stale" ELSE "none",
                   err |-> NoError]

\* The values of the timestamp fields of a clone record.
CompletedValues ==
    {Absent, PyNone, PyStr(<<>>), PyStr(<<" "," "," ">>),
     PyStr(<<"2","0","2","4","-","0","1","-","0","1"," ","0","0",":","0","0",":","0","0">>),
     PyStr(<<"2","0","2","4","-","0","1","-","3","1"," ","0","0",":","0","0",":","0","0">>),
     PyStr(<<"2","0","2","4","-","0","1","-","3","1"," ","1","2",":","0","0",":","0","0",".","5">>),
     PyStr(<<"2","0","2","4","-","0","1","-","0","1"," ","0","0",":","0","0",":","0","0","+","0","1","0","0">>),
     PyStr(<<"2","0","2","4","-","0","1","-","0","1","T","0","0",":","0","0",":","0","0","Z">>),
     PyStr(<<"2","0","2","4","-","0","2","-","3","0"," ","0","0",":","0","0",":","0","0">>),
     PyInt(20240101)}

CloneRecords ==
    {[completed |-> c, finished |-> f, sys_created_on |-> o, scheduled |-> p] :
        c \in CompletedValues,
        f \in {Absent, PyStr(<<"2","0","2","4","-","0","1","-","3","1"," ","0","0",":","0","0",":","0","0">>)},
        o \in {Absent, PyStr(<<"2","0","2","4","-","0","1","-","0","1"," ","0","0",":","0","0",":","0","0">>)},
        p \in {Absent, PyStr(<<>>), PyStr(<<"2","0","2","4","-","0","1","-","0","1","T","0","0",":","0","0",":","0","0","Z">>)}}

NoCloneRecord ==
    [completed |-> Absent, finished |-> Absent, sys_created_on |-> Absent, scheduled |-> Absent]

NoCloneFetch == [state |-> "none", record |-> NoCloneRecord, err |-> NoError]

\* The ways client.get_clone_info ends.
CloneFetches ==
    {[state |-> "returned", record |-> r, err |-> NoError] : r \in CloneRecords}
    \cup {[state |-> "raised", record |-> NoCloneRecord, err |-> e] :
            e \in {ServiceNowAPIError(MsgNoCloneHistory("uat"), None, NonePayload),
                   OtherError("RequestException", "timeout")}}

\* The values of stale_after_days and the times the check is run at.
StaleAfterDays == {0, 1, DEFAULT_STALE_DAYS, 60}

CheckTimes ==
    {Instant(2024, 3, 1, 0, 0, 0, 0), Instant(2024, 1, 31, 0, 0, 0, 0),
     Instant(2024, 2, 1, 0, 0, 0, 250000), Instant(2024, 1, 1, 0, 30, 0, 0)}

\* ------------------------------------------------- environment settings
UpperChar(c) ==
    IF \E i \in 1..26 : LowerChars[i] = c
    THEN UpperChars[CHOOSE i \in 1..26 : LowerChars[i] = c]
    ELSE c

\* str.upper()
Upper(s) == [i \in 1..Len(s) |-> UpperChar(s[i])]

\* The logical keys of a configuration.
Keys == {"URL", "USERNAME", "PASSWORD", "CLIENT_ID", "CLIENT_SECRET",
         "OAUTH_TOKEN_URL", "VERIFY_SSL", "TIMEOUT"}

\* The name of an environment variable: f"SERVICENOW_{env}_{key}" (form 1),
\* f"{env}_SERVICENOW_{key}" (form 2) or f"SERVICENOW_{key}" (form 3).
VariableName(form, env, key) == [form |-> form, env |-> IF form = 3 THEN <<>> ELSE env, key |-> key]

NoVariableName == [form |-> 0, env |-> <<>>, key |-> ""]

\* The list of names load_environment_config hands to _lookup_env for a key.
LookupKeys(env, key) ==
    <<VariableName(1, env, key), VariableName(2, env, key), VariableName(3, env, key)>>

\* os.getenv(key) in the environment e
getenv(e, key) == IF key \in DOMAIN e THEN e[key] ELSE PyNone

\* The lookup taking a variable that is set to the empty string.
RECURSIVE lookup_env_EmptyCounts(_, _)
lookup_env_EmptyCounts(e, keys) ==
    IF keys = <<>> THEN PyNone
    ELSE IF getenv(e, Head(keys)) # PyNone THEN getenv(e, Head(keys))
    ELSE lookup_env_EmptyCounts(e, Tail(keys))

\* _lookup_env
RECURSIVE lookup_env(_, _)
lookup_env(e, keys) ==
    IF keys = <<>> THEN PyNone
    ELSE IF PyTruthy(getenv(e, Head(keys))) THEN getenv(e, Head(keys))
    ELSE lookup_env(e, Tail(keys))

\* str.rstrip("/")
RECURSIVE RStripSlash(_)
RStripSlash(s) ==
    IF s # <<>> /\ s[Len(s)] = "/" THEN RStripSlash(SubSeq(s, 1, Len(s) - 1)) ELSE s

\* int(text): white space around the number and a sign are taken
IntOf(text) ==
    LET t == Strip(text)
        signed == t # <<>> /\ t[1] \in {"+", "-"}
        body == IF signed THEN Tail(t) ELSE t
    IN  IF AllDigits(body)
        THEN [ok |-> TRUE, n |-> IF signed /\ t[1] = "-" THEN 0 - Number(body) ELSE Number(body)]
        ELSE [ok |-> FALSE, n |-> 0]

DefaultTimeout == <<"6","0">>     \* int(timeout_raw or "60")

\* verify_ssl_flag = True if verify_ssl is None else verify_ssl.lower() != "false"
verify_ssl_flag(verify_ssl) ==
    IF verify_ssl = PyNone THEN TRUE ELSE Lower(verify_ssl.s) # <<"f","a","l","s","e">>

\* ServiceNowEnvironmentConfig, or the exception raised instead of it.
\* missing: the variable the message of the EnvironmentError names.
NoEnvironmentConfig ==
    [state |-> "none", name |-> <<>>, instance_url |-> <<>>, username |-> PyNone,
     password |-> PyNone, client_id |-> PyNone, client_secret |-> PyNone,
     oauth_token_url |-> PyNone, verify_ssl |-> TRUE, request_timeout |-> 60,
     err |-> "none", missing |-> NoVariableName]

\* load_environment_config with ServiceNowEnvironmentConfig.__post_init__
load_environment_config(e, env_name) ==
    LET env == Upper(env_name)
        url == lookup_env(e, LookupKeys(env, "URL"))
        timeout_raw == lookup_env(e, LookupKeys(env, "TIMEOUT"))
        timeout == IntOf(IF PyTruthy(timeout_raw) THEN timeout_raw.s ELSE DefaultTimeout)
    IN  IF ~PyTruthy(url)
        THEN [NoEnvironmentConfig EXCEPT !.state = "raised", !.err = "EnvironmentError",
                                          !.missing = VariableName(1, env, "URL")]
        ELSE IF ~timeout.ok
        THEN [NoEnvironmentConfig EXCEPT !.state = "raised", !.err = "ValueError"]
        ELSE [state |-> "returned", name |-> env,
              instance_url |-> RStripSlash(url.s),
              username |-> lookup_env(e, LookupKeys(env, "USERNAME")),
              password |-> lookup_env(e, LookupKeys(env, "PASSWORD")),
              client_id |-> lookup_env(e, LookupKeys(env, "CLIENT_ID")),
              client_secret |-> lookup_env(e, LookupKeys(env, "CLIENT_SECRET")),
              oauth_token_url |-> lookup_env(e, LookupKeys(env, "OAUTH_TOKEN_URL")),
              verify_ssl |-> verify_ssl_flag(lookup_env(e, LookupKeys(env, "VERIFY_SSL"))),
              request_timeout |-> timeout.n,
              err |-> "none", missing |-> NoVariableName]

\* Which fields of a configuration are populated, as the client tests them.
Populated(c) ==
    [username |-> PyTruthy(c.username), password |-> PyTruthy(c.password),
     client_id |-> PyTruthy(c.client_id), client_secret |-> PyTruthy(c.client_secret),
     oauth_token_url |-> PyTruthy(c.oauth_token_url)]

\* The environment names a client is constructed for.
EnvironmentNames == {<<"u","a","t">>, <<"U","A","T">>}

\* The text a variable of a key holds when it is set and not empty: one text
\* for each form of the name.
LayerText(key, form) ==
    IF key = "URL"
    THEN (IF form = 1 THEN PyStr(<<"h","t","t","p","s",":","/","/","a",".","e","x","a","m","p","l","e","/">>) ELSE IF form = 2 THEN PyStr(<<"h","t","t","p","s",":","/","/","b",".","e","x","a","m","p","l","e">>) ELSE PyStr(<<"h","t","t","p","s",":","/","/","c",".","e","x","a","m","p","l","e","/","/">>))
    ELSE IF key = "TIMEOUT"
    THEN (IF form = 1 THEN PyStr(<<"a","b","c">>) ELSE IF form = 2 THEN PyStr(<<" ","4","5"," ">>) ELSE PyStr(<<"3","0">>))
    ELSE IF key = "VERIFY_SSL"
    THEN (IF form = 1 THEN PyStr(<<"F","a","l","s","e">>) ELSE IF form = 2 THEN PyStr(<<"f","a","l","s","e"," ">>) ELSE PyStr(<<"t","r","u","e">>))
    ELSE (IF form = 1 THEN PyStr(<<"x","1">>) ELSE IF form = 2 THEN PyStr(<<"x","2">>) ELSE PyStr(<<"x","3">>))

\* How the three variables of a key stand: unset, empty or holding a text.
Settings == [1..3 -> {"unset", "empty", "text"}]

SettingValue(key, form, setting) ==
    IF setting = "unset" THEN PyNone
    ELSE IF setting = "empty" THEN PyStr(<<>>) ELSE LayerText(key, form)

\* Keys that are set together, in the same way.
KeyGroups ==
    {{"USERNAME", "PASSWORD"}, {"CLIENT_ID", "CLIENT_SECRET", "OAUTH_TOKEN_URL"},
     {"CLIENT_ID", "CLIENT_SECRET"}, {"USERNAME"}, {"PASSWORD", "CLIENT_ID"},
     {"VERIFY_SSL"}, {"TIMEOUT"}}

\* The variables os.environ holds for the environment UAT, with the URL of
\* another environment beside them.
AllVariableNames ==
    {VariableName(f, <<"U","A","T">>, k) : f \in 1..3, k \in Keys}
    \cup {VariableName(1, <<"P","R","O","D">>, "URL")}

EnvironWith(url, group, other) ==
    [v \in AllVariableNames |->
        IF v.env = <<"P","R","O","D">> THEN PyStr(<<"h","t","t","p","s",":","/","/","a",".","e","x","a","m","p","l","e","/">>)
        ELSE IF v.key = "URL" THEN SettingValue("URL", v.form, url[v.form])
        ELSE IF v.key \in group THEN SettingValue(v.key, v.form, other[v.form])
        ELSE PyNone]

Environs ==
    {EnvironWith(url, group, other) : url \in Settings, group \in KeyGroups, other \in Settings}

NoEnviron == [v \in AllVariableNames |-> PyNone]

\* ------------------------------------------------------- standards files
\* A text is a sequence of pieces: a marker, a line break, or text that holds
\* no part of a marker.
COMMON_MARKER_START == "<!-- AUTO-GENERATED:VALIDATION_COMMON_ISSUES -->"
COMMON_MARKER_END == "<!-- /AUTO-GENERATED:VALIDATION_COMMON_ISSUES -->"
LineBreak == "\n"

\* The file at a path: missing, or holding a text.
MissingFile == [exists |-> FALSE, text |-> <<>>]
FileWith(text) == [exists |-> TRUE, text |-> text]

\* marker in text
Occurs(marker, text) == \E i \in 1..Len(text) : text[i] = marker

\* The place of the first occurrence of a marker in a text that holds it.
FirstIndex(marker, text) ==
    CHOOSE i \in 1..Len(text) : text[i] = marker /\ \A j \in 1..(i - 1) : text[j] # marker

\* str.partition(sep): the text before the first separator, the separator
\* and the text after it; the text and two empty strings without one
partition(text, sep) ==
    IF Occurs(sep, text)
    THEN <<SubSeq(text, 1, FirstIndex(sep, text) - 1), <<sep>>,
           SubSeq(text, FirstIndex(sep, text) + 1, Len(text))>>
    ELSE <<text, <<>>, <<>>>>

\* f"{start_marker}\n{content}\n{end_marker}"
MarkedBlock(start_marker, end_marker, text) ==
    <<start_marker, LineBreak>> \o text \o <<LineBreak, end_marker>>

\* f"# {path.stem.replace('_', ' ').title()}\n\n" for common_mistakes.md
Header == <<"# Common Mistakes", LineBreak, LineBreak>>

\* The update putting the new block at the end of the file whatever it holds.
update_markdown_file_AlwaysAppend(f, start_marker, end_marker, text) ==
    IF ~f.exists
    THEN FileWith(Header \o MarkedBlock(start_marker, end_marker, text) \o <<LineBreak>>)
    ELSE FileWith(f.text \o MarkedBlock(start_marker, end_marker, text) \o <<LineBreak>>)

\* update_markdown_file: the file at the path afterwards
update_markdown_file(f, start_marker, end_marker, text) ==
    IF ~f.exists
    THEN FileWith(Header \o MarkedBlock(start_marker, end_marker, text) \o <<LineBreak>>)
    ELSE IF Occurs(start_marker, f.text) /\ Occurs(end_marker, f.text)
    THEN LET before == partition(f.text, start_marker)[1]
             remainder == partition(f.text, start_marker)[3]
             after == partition(remainder, end_marker)[3]
         IN  FileWith(before \o MarkedBlock(start_marker, end_marker, text) \o after)
    ELSE LET current == IF f.text = <<>> \/ f.text[Len(f.text)] # LineBreak
                        THEN Append(f.text, LineBreak) ELSE f.text
         IN  FileWith(current \o MarkedBlock(start_marker, end_marker, text) \o <<LineBreak>>)

\* The pieces a file is made of before the first update, and the texts put
\* between the markers.
Pieces == {COMMON_MARKER_START, COMMON_MARKER_END, LineBreak, "notes"}

Files == {MissingFile} \cup {FileWith(t) : t \in SeqsUpTo(Pieces, MaxFileLen)}

Contents ==
    {<<>>, <<"| Check |">>, <<"| Check |", LineBreak, "| api_error |">>,
     <<"| see ", COMMON_MARKER_START, " |">>, <<"| see ", COMMON_MARKER_END, " |">>}

\* ----------------------------------------------------------------- actions
Configs ==
    [username : BOOLEAN, password : BOOLEAN, client_id : BOOLEAN,
     client_secret : BOOLEAN, oauth_token_url : BOOLEAN]

\* The client before its constructor has run.
ClientInit ==
    /\ config \in Configs
    /\ auto_refresh_token \in BOOLEAN
    /\ auth = "unset"
    /\ oauth_token = None
    /\ oauth_expiration_epoch = None
    /\ now = 0
    /\ pc = "new"
    /\ op = "none"
    /\ phase = "done"
    /\ qt = NoQuery
    /\ fb = NoFallback
    /\ queries = <<>>
    /\ exchange = NoExchange
    /\ issued = {}
    /\ fetched_at = NotFetched
    /\ outcome = NoOutcome
    /\ primary_err = NoError
    /\ raised_kinds = [unauthorized |-> {}, other |-> {}]
    /\ target_instance = ""

\* No script has been started.
MainIdle ==
    /\ args = NoArgs
    /\ catalog_items = <<>>
    /\ main_results = <<>>
    /\ main_pc = "none"

CloneDateIdle ==
    /\ clone_fetch = NoCloneFetch
    /\ stale_after_days = DEFAULT_STALE_DAYS
    /\ now_utc = NoInstant
    /\ clone_status = NoCloneStatus

EnvironmentIdle ==
    /\ environment = <<>>
    /\ environ = NoEnviron
    /\ env_config = NoEnvironmentConfig

FileIdle ==
    /\ file = MissingFile
    /\ content = <<>>
    /\ file_before = MissingFile
    /\ updates = 0

ScriptInit ==
    /\ MainIdle
    /\ CloneDateIdle
    /\ EnvironmentIdle
    /\ FileIdle

\* The client on its own: no validation is asked for.
Init ==
    /\ ClientInit
    /\ identifier = ""
    /\ item_fetch = NoItemFetch
    /\ variables_fetch = NoVariablesFetch
    /\ result = NoResult
    /\ ScriptInit

\* The effect of a pass through _ensure_oauth_token on the token cache.
TokenEffect(e_posted_ok, token, expiry, tr) ==
    /\ oauth_token' = token
    /\ oauth_expiration_epoch' = expiry
    /\ issued' = IF e_posted_ok THEN issued \cup {tr.access_token} ELSE issued
    /\ fetched_at' = IF e_posted_ok THEN [at |-> now, expires_in |-> ExpiresIn(tr)]
                     ELSE fetched_at

\* The credential test going on to the token fetch without a token URL.
AuthChoice_NoUrlTest(c) ==
    IF c.username /\ c.password THEN "basic"
    ELSE IF c.client_id /\ c.client_secret THEN "oauth"
    ELSE "no_auth"

\* ServiceNowAPIClient.__init__: which branch of the credential test is taken
AuthChoice(c) ==
    IF c.username /\ c.password THEN "basic"
    ELSE IF c.client_id /\ c.client_secret
    THEN IF c.oauth_token_url THEN "oauth" ELSE "no_token_url"
    ELSE "no_auth"

\* ServiceNowAPIClient.__init__: what the call of _ensure_oauth_token sent
\* and received
ConstructExchange(tr, e) ==
    [NoExchange EXCEPT !.at = now, !.checked = e.checked,
                       !.token_posted = e.posted,
                       !.token_ok = (e.posted /\ e.err = NoError),
                       !.token_resp = IF e.posted THEN tr ELSE TokenNoResponse,
                       !.fetched_before = fetched_at,
                       !.err = e.err]

\* ServiceNowAPIClient.__init__
Construct ==
    /\ pc = "new"
    /\ \E tr \in TokenResponsesFor(AuthChoice(config) = "oauth") :
        \E choice \in {AuthChoice(config)} :
        \E e \in {ensure_oauth_token(tr)} :
        \E ok \in {e.posted /\ e.err = NoError} :
        \E exch \in {ConstructExchange(tr, e)} :
            CASE choice = "basic" ->
                    /\ auth' = "basic"
                    /\ pc' = "ready"
                    /\ outcome' = Returned("__init__", <<>>)
                    /\ UNCHANGED <<oauth_token, oauth_expiration_epoch, issued, fetched_at, exchange>>
              [] choice = "oauth" ->
                    /\ auth' = "none"
                    /\ TokenEffect(ok, e.token, e.expiry, tr)
                    /\ exchange' = exch
                    /\ pc' = IF e.err = NoError THEN "ready" ELSE "dead"
                    /\ outcome' = IF e.err = NoError THEN Returned("__init__", <<>>)
                                  ELSE Raised("__init__", e.err)
              [] choice = "no_token_url" ->
                    /\ pc' = "dead"
                    /\ outcome' = Raised("__init__", OtherError("ValueError", "OAuth token URL missing"))
                    /\ UNCHANGED <<auth, oauth_token, oauth_expiration_epoch, issued, fetched_at, exchange>>
              [] choice = "no_auth" ->
                    /\ pc' = "dead"
                    /\ outcome' = Raised("__init__", OtherError("ValueError", "No authentication method configured"))
                    /\ UNCHANGED <<auth, oauth_token, oauth_expiration_epoch, issued, fetched_at, exchange>>
    /\ op' = "__init__"
    /\ UNCHANGED <<config, auto_refresh_token, now, phase, qt, fb, queries,
                   primary_err, raised_kinds, target_instance, identifier>>
    /\ UNCHANGED validator_vars
    /\ UNCHANGED script_vars

\* Time passes while an operation of the client is under way.
Tick ==
    /\ pc = "running"
    /\ now < MaxTime
    /\ now' = now + 1
    /\ UNCHANGED <<config, auto_refresh_token, auth, oauth_token, oauth_expiration_epoch,
                   pc, op, phase, qt, fb, queries, exchange, issued, fetched_at, outcome,
                   primary_err, raised_kinds, target_instance, identifier>>
    /\ UNCHANGED validator_vars
    /\ UNCHANGED script_vars

\* The classes of the errors the request layer has raised so far for a 401
\* response and for a response with another status of 400 or above.
KindsAfter(exch) ==
    IF exch.sent /\ exch.resp.net = "ok" /\ exch.resp.status >= 400 /\ exch.err # NoError
    THEN IF exch.resp.status = 401
         THEN [raised_kinds EXCEPT !.unauthorized = @ \cup {exch.err.kind}]
         ELSE [raised_kinds EXCEPT !.other = @ \cup {exch.err.kind}]
    ELSE raised_kinds

\* A caller-facing operation begins: its first query_table call is entered.
\* t: the target instance the operation works on ("" when it has none);
\* id: the catalog item it is asked for ("" when it has none).
BeginWith(o, q, t, id) ==
    /\ pc = "ready"
    /\ pc' = "running"
    /\ op' = o
    /\ phase' = "primary"
    /\ qt' = q
    /\ fb' = NoFallback
    /\ queries' = <<q.table>>
    /\ exchange' = NoExchange
    /\ outcome' = NoOutcome
    /\ primary_err' = NoError
    /\ target_instance' = t
    /\ identifier' = id
    /\ UNCHANGED <<config, auto_refresh_token, auth, oauth_token, oauth_expiration_epoch,
                   now, issued, fetched_at, raised_kinds>>
    /\ UNCHANGED validator_vars
    /\ UNCHANGED script_vars

BeginOn(o, q, t) == BeginWith(o, q, t, "")

Begin(o, q) == BeginOn(o, q, "")

\* One pass through the loop of the running query_table call and, when the
\* call is over, the code of its caller up to the next call or the end.
Step(o) ==
    /\ pc = "running"
    /\ op = o
    /\ qt.nreq < MaxRequests
    /\ \E p \in ResponsePairs(UsesBearer, TableResponses(qt, SysparmLimit(qt))) :
        \E it \in {Iterate(qt, p[1], p[2])} :
        \E k \in {After(op, phase, fb, it.err, it.q.collected)} :
            /\ TokenEffect(it.x.exch.token_ok, it.x.token, it.x.expiry, p[1])
            /\ exchange' = it.x.exch
            /\ raised_kinds' = KindsAfter(it.x.exch)
            /\ primary_err' = IF phase = "primary" /\ it.done THEN it.err ELSE primary_err
            /\ IF ~it.done
               THEN /\ qt' = it.q
                    /\ UNCHANGED <<pc, phase, fb, queries, outcome>>
               ELSE IF k.finish
               THEN /\ qt' = it.q
                    /\ pc' = "ready"
                    /\ phase' = "done"
                    /\ outcome' = k.outcome
                    /\ UNCHANGED <<fb, queries>>
               ELSE /\ qt' = k.next
                    /\ phase' = k.phase
                    /\ fb' = k.fb
                    /\ queries' = Append(queries, k.next.table)
                    /\ UNCHANGED <<pc, outcome>>
    /\ UNCHANGED <<config, auto_refresh_token, auth, now, op, target_instance, identifier>>
    /\ UNCHANGED validator_vars
    /\ UNCHANGED script_vars

\* query_table called by a user of the client
CallQueryTable ==
    \E b \in 1..MaxBatch, l \in {None} \cup (0..MaxLimit) :
        Begin("query_table", NewQuery("incident", l, b))

QueryTableStep == Step("query_table")

\* query_table called with a limit of at least one
CallQueryTableWithLimit ==
    \E b \in 1..MaxBatch, l \in 1..MaxLimit :
        Begin("query_table", NewQuery("incident", l, b))

\* query_table called without a limit on a table of n records whose backend
\* serves every page honestly
CallQueryTableHonest ==
    \E b \in 1..MaxBatch, n \in 0..MaxHeld :
        Begin("query_table", [NewQuery("incident", None, b) EXCEPT !.held = n])

\* The page an honest backend serves: the records from the offset on, as
\* many as asked for or as are left.
HonestPage(q) == Serial(q.served, Min(SysparmLimit(q), q.held - q.served))

\* One pass of the loop of a query with a limit, whatever the backend does.
LimitedStep ==
    /\ qt.limit # None
    /\ QueryTableStep

\* One pass of the loop against the honest backend.
HonestStep ==
    /\ qt.held # None
    /\ QueryTableStep
    /\ exchange'.resp = [net |-> "ok", status |-> 200, payload |-> PlainPayload,
                         result |-> HonestPage(qt)]

\* get_clone_info(target_instance): the argument is a name or is left out
\*   target_instance = target_instance or extract_instance_name(...)
CallGetCloneInfo ==
    \E t \in TargetArguments :
        BeginOn("get_clone_info", NewQuery("sys_clone_history", 1, DefaultBatchSize),
                IF t # "" THEN t ELSE ConfiguredInstance)

GetCloneInfoStep == Step("get_clone_info")

\* get_catalog_item_variables with a valid sys_id
CallGetCatalogItemVariables ==
    Begin("get_catalog_item_variables", NewQuery("sc_item_option_new", None, DefaultBatchSize))

GetCatalogItemVariablesStep == Step("get_catalog_item_variables")

\* The responses the table API can give to GET /api/now/table/<t>/<sys_id>:
\* the record (result = <<1>>), a body without "result", or a failure.
RecordResponses ==
    {TableNoResponse,
     [net |-> "ok", status |-> 200, payload |-> PlainPayload, result |-> <<1>>],
     [net |-> "ok", status |-> 200, payload |-> PlainPayload, result |-> <<>>],
     [net |-> "ok", status |-> 200, payload |-> ListPayload, result |-> <<>>],
     [net |-> "ok", status |-> 200, payload |-> NonePayload, result |-> <<>>],
     [net |-> "ok", status |-> 401, payload |-> NonePayload, result |-> <<>>],
     [net |-> "ok", status |-> 404,
      payload |-> [shape |-> "map", error_shape |-> "map", message |-> MsgForbidden],
      result |-> <<>>],
     [net |-> "ok", status |-> 500, payload |-> NonePayload, result |-> <<>>]}

\* get_record: what the method makes of the outcome x of _request_json
RecordOutcome(x, r) ==
    IF x.err # NoError THEN Raised("get_record", x.err)
    ELSE IF x.payload.shape # "map"
    THEN Raised("get_record", OtherError("AttributeError", "payload.get"))
    ELSE IF r.result = <<>>
    THEN Raised("get_record", ServiceNowAPIError("Record not found", None, x.payload))
    ELSE Returned("get_record", r.result)

\* get_record called by a user of the client
CallGetRecord == Begin("get_record", NewQuery("sc_cat_item", None, 0))

\* get_record: the request and what the method makes of the response
GetRecordStep ==
    /\ pc = "running"
    /\ op = "get_record"
    /\ \E p \in ResponsePairs(UsesBearer, RecordResponses) :
        \E x \in {request_json("sc_cat_item", None, None, p[1], p[2])} :
            /\ TokenEffect(x.exch.token_ok, x.token, x.expiry, p[1])
            /\ exchange' = x.exch
            /\ raised_kinds' = KindsAfter(x.exch)
            /\ outcome' = RecordOutcome(x, p[2])
    /\ pc' = "ready"
    /\ phase' = "done"
    /\ UNCHANGED <<config, auto_refresh_token, auth, now, op, qt, fb, queries, primary_err,
                   target_instance, identifier>>
    /\ UNCHANGED validator_vars
    /\ UNCHANGED script_vars

\* get_catalog_item called by a user of the client
\*   if is_sys_id(sys_id_or_name): ... self.get_record("sc_cat_item", ...)
\*   results = self.query_table("sc_cat_item", ..., limit=1)
CallGetCatalogItem ==
    \E id \in Identifiers :
        BeginWith("get_catalog_item",
                  IF is_sys_id(id) THEN NewQuery("sc_cat_item", None, 0)
                  ELSE NewQuery("sc_cat_item", 1, DefaultBatchSize),
                  "", id)

\* get_catalog_item, sys_id branch: the request of get_record and what the
\* two methods make of the response
GetCatalogItemRecordStep ==
    /\ pc = "running"
    /\ op = "get_catalog_item"
    /\ is_sys_id(identifier)
    /\ \E p \in ResponsePairs(UsesBearer, RecordResponses) :
        \E x \in {request_json("sc_cat_item", None, None, p[1], p[2])} :
            /\ TokenEffect(x.exch.token_ok, x.token, x.expiry, p[1])
            /\ exchange' = x.exch
            /\ raised_kinds' = KindsAfter(x.exch)
            /\ outcome' = catalog_item_by_sys_id(identifier, RecordOutcome(x, p[2]))
    /\ pc' = "ready"
    /\ phase' = "done"
    /\ UNCHANGED <<config, auto_refresh_token, auth, now, op, qt, fb, queries, primary_err,
                   target_instance, identifier>>
    /\ UNCHANGED validator_vars
    /\ UNCHANGED script_vars

\* get_catalog_item, name branch
GetCatalogItemQueryStep ==
    /\ ~is_sys_id(identifier)
    /\ Step("get_catalog_item")

\* The client, which the validator examined on its own does not run.
client_vars ==
    <<config, auto_refresh_token, auth, oauth_token, oauth_expiration_epoch, now,
      pc, op, phase, qt, fb, queries, exchange, issued, fetched_at, outcome,
      primary_err, raised_kinds, target_instance>>

\* CatalogItemValidator.validate(identifier), given how the two calls of the
\* client end
Validate ==
    /\ item_fetch.state # "none"
    /\ result.state = "none"
    /\ result' = [validate(item_fetch, variables_fetch) EXCEPT !.by = "validate"]
    /\ UNCHANGED <<identifier, item_fetch, variables_fetch>>
    /\ UNCHANGED client_vars
    /\ UNCHANGED script_vars

\* main: one pass through the loop over the catalog items
MainLoopBody ==
    /\ item_fetch.state # "none"
    /\ result.state = "none"
    /\ result' = [main_loop_body(identifier, validate(item_fetch, variables_fetch))
                    EXCEPT !.by = "main"]
    /\ UNCHANGED <<identifier, item_fetch, variables_fetch>>
    /\ UNCHANGED client_vars
    /\ UNCHANGED script_vars

\* determine_overall_status applied to a list of checks
DetermineOverallStatus ==
    /\ result.state = "checks"
    /\ result' = [result EXCEPT !.state = "status",
                                !.overall_status = determine_overall_status(result.checks)]
    /\ UNCHANGED <<identifier, item_fetch, variables_fetch>>
    /\ UNCHANGED client_vars
    /\ UNCHANGED script_vars

\* main: catalog_items = catalog_items[: args.catalog_limit] when the limit is
\* truthy and positive
LimitItems(items, limit) ==
    IF limit # 0 /\ limit > 0 THEN SubSeq(items, 1, Min(limit, Len(items))) ELSE items

\* main of the validator, from parse_args to the loop: the client has been
\* constructed
MainBegin ==
    /\ pc = "ready"
    /\ main_pc = "none"
    /\ \E a \in CommandLines :
        /\ args' = a
        /\ catalog_items' = LimitItems(a.catalog_items, a.catalog_limit)
    /\ main_results' = <<>>
    /\ main_pc' = "loop"
    /\ UNCHANGED <<identifier, item_fetch, variables_fetch, result>>
    /\ UNCHANGED client_vars
    /\ UNCHANGED <<clone_vars, env_vars, file_vars>>

\* main: one pass through "for identifier in catalog_items", and what follows
\* the loop when it was the last one.  An exception that is not a
\* ServiceNowAPIError leaves main.
MainLoop ==
    /\ main_pc = "loop"
    /\ Len(main_results) < Len(catalog_items)
    /\ \E f \in BatchFetches :
        \E id \in {catalog_items[Len(main_results) + 1]} :
        \E r \in {main_loop_body(id, validate(f[1], f[2]))} :
            /\ identifier' = id
            /\ item_fetch' = f[1]
            /\ variables_fetch' = f[2]
            /\ result' = [r EXCEPT !.by = "main"]
            /\ IF r.state = "raised"
               THEN /\ main_pc' = "raised"
                    /\ UNCHANGED main_results
               ELSE /\ main_results' = Append(main_results, r)
                    /\ main_pc' = IF Len(main_results) + 1 = Len(catalog_items)
                                  THEN "returned" ELSE "loop"
    /\ UNCHANGED <<args, catalog_items>>
    /\ UNCHANGED client_vars
    /\ UNCHANGED <<clone_vars, env_vars, file_vars>>

\* evaluate_clone_status(client, target_instance_name, stale_after_days=...)
EvaluateCloneStatus ==
    /\ clone_fetch.state # "none"
    /\ clone_status.state = "none"
    /\ clone_status' = evaluate_clone_status(clone_fetch, stale_after_days, now_utc)
    /\ UNCHANGED <<clone_fetch, stale_after_days, now_utc>>
    /\ UNCHANGED <<identifier, validator_vars, main_vars, env_vars, file_vars>>
    /\ UNCHANGED client_vars

\* ServiceNowAPIClient.__init__ for an environment that is not among the
\* configs handed in: the configuration is loaded from the environment
\* variables; the rest of the constructor follows when it has loaded.
\*   env_config = load_environment_config(self.environment)
LoadEnvironmentConfig ==
    /\ pc = "new"
    /\ environment # <<>>
    /\ env_config.state = "none"
    /\ \E c \in {load_environment_config(environ, environment)} :
        /\ env_config' = c
        /\ IF c.state = "returned"
           THEN /\ config' = Populated(c)
                /\ UNCHANGED <<pc, op, outcome>>
           ELSE /\ pc' = "dead"
                /\ op' = "__init__"
                /\ outcome' = Raised("__init__", OtherError(c.err, "load_environment_config"))
                /\ UNCHANGED config
    /\ UNCHANGED <<auto_refresh_token, auth, oauth_token, oauth_expiration_epoch, now,
                   phase, qt, fb, queries, exchange, issued, fetched_at,
                   primary_err, raised_kinds, target_instance, identifier>>
    /\ UNCHANGED validator_vars
    /\ UNCHANGED <<main_vars, clone_vars, environment, environ, file_vars>>

\* update_markdown_file(path, start_marker, end_marker, content) on the file
\* of the common issues
UpdateMarkdownFile ==
    /\ updates < MaxUpdates
    /\ file' = update_markdown_file(file, COMMON_MARKER_START, COMMON_MARKER_END, content)
    /\ file_before' = file
    /\ updates' = updates + 1
    /\ UNCHANGED content
    /\ UNCHANGED <<identifier, validator_vars, main_vars, clone_vars, env_vars>>
    /\ UNCHANGED client_vars

\* ---------------------------------------------------------- specifications
\* A client with a username and a password and nothing else configured.
BasicConfig ==
    [username |-> TRUE, password |-> TRUE, client_id |-> FALSE,
     client_secret |-> FALSE, oauth_token_url |-> FALSE]

InitBasic ==
    /\ Init
    /\ config = BasicConfig
    /\ auto_refresh_token = TRUE

\* Configurations in which each credential pair is present or absent as a
\* whole.
InitAuth ==
    /\ Init
    /\ config.username = config.password
    /\ config.client_id = config.client_secret

\* Authentication: the clock and single-record requests.
NextAuth ==
    \/ Construct
    \/ Tick
    \/ CallGetRecord
    \/ GetRecordStep

SpecAuth == InitAuth /\ [][NextAuth]_vars

\* Pagination: query_table against every backend, basic authentication.
NextPaging ==
    \/ Construct
    \/ CallQueryTable
    \/ QueryTableStep

SpecPaging == InitBasic /\ [][NextPaging]_vars

\* Termination of query_table.  A pass of the loop ends when its request is
\* answered or times out (requests.request(..., timeout=request_timeout)),
\* and the loop runs in one thread with nothing to wait for between passes,
\* so a pass that can be taken is taken.
NextTermination ==
    \/ Construct
    \/ CallQueryTableWithLimit
    \/ CallQueryTableHonest
    \/ LimitedStep
    \/ HonestStep

SpecTermination ==
    InitBasic /\ [][NextTermination]_vars /\ WF_vars(LimitedStep) /\ WF_vars(HonestStep)

\* Table fallbacks: get_clone_info and get_catalog_item_variables.
NextFallback ==
    \/ Construct
    \/ CallGetCloneInfo
    \/ GetCloneInfoStep
    \/ CallGetCatalogItemVariables
    \/ GetCatalogItemVariablesStep

SpecFallback == InitBasic /\ [][NextFallback]_vars

\* Catalog item lookup by sys_id or by name, with either kind of credentials.
NextCatalogItem ==
    \/ Construct
    \/ CallGetCatalogItem
    \/ GetCatalogItemRecordStep
    \/ GetCatalogItemQueryStep

SpecCatalogItem == InitAuth /\ [][NextCatalogItem]_vars

\* The validator on every item and variable list, and determine_overall_status
\* on every list of checks.
InitValidator ==
    /\ ClientInit
    /\ config = BasicConfig
    /\ auto_refresh_token = TRUE
    /\ \/ /\ \E f \in Fetches(MaxVariables) : item_fetch = f[1] /\ variables_fetch = f[2]
          /\ identifier \in IF Len(variables_fetch.variables) > 1 THEN {SysIdA}
                            ELSE {SysIdA, ItemName}
          /\ result = NoResult
       \/ /\ identifier = ""
          /\ item_fetch = NoItemFetch
          /\ variables_fetch = NoVariablesFetch
          /\ \E checks \in CheckLists : result = [NoResult EXCEPT !.state = "checks", !.checks = checks]
    /\ ScriptInit

NextValidator ==
    \/ Validate
    \/ MainLoopBody
    \/ DetermineOverallStatus

SpecValidator == InitValidator /\ [][NextValidator]_vars

\* The validator script over a command line of several catalog items.
NextMain ==
    \/ Construct
    \/ MainBegin
    \/ MainLoop

SpecMain == InitBasic /\ [][NextMain]_vars

\* The clone date check on every clone record, threshold and time of day.
InitCloneDate ==
    /\ ClientInit
    /\ config = BasicConfig
    /\ auto_refresh_token = TRUE
    /\ identifier = ""
    /\ item_fetch = NoItemFetch
    /\ variables_fetch = NoVariablesFetch
    /\ result = NoResult
    /\ MainIdle
    /\ clone_fetch \in CloneFetches
    /\ stale_after_days \in StaleAfterDays
    /\ now_utc \in CheckTimes
    /\ clone_status = NoCloneStatus
    /\ EnvironmentIdle
    /\ FileIdle

NextCloneDate == EvaluateCloneStatus

SpecCloneDate == InitCloneDate /\ [][NextCloneDate]_vars

\* A client constructed for an environment whose configuration comes from
\* the environment variables.
NoConfig ==
    [username |-> FALSE, password |-> FALSE, client_id |-> FALSE,
     client_secret |-> FALSE, oauth_token_url |-> FALSE]

InitConfig ==
    /\ ClientInit
    /\ config = NoConfig
    /\ auto_refresh_token = TRUE
    /\ identifier = ""
    /\ item_fetch = NoItemFetch
    /\ variables_fetch = NoVariablesFetch
    /\ result = NoResult
    /\ MainIdle
    /\ CloneDateIdle
    /\ environment \in EnvironmentNames
    /\ environ \in Environs
    /\ env_config = NoEnvironmentConfig
    /\ FileIdle

NextConfig ==
    \/ LoadEnvironmentConfig
    \/ Construct

SpecConfig == InitConfig /\ [][NextConfig]_vars

\* The update of a standards file, whatever the file holds.
InitStandards ==
    /\ ClientInit
    /\ config = BasicConfig
    /\ auto_refresh_token = TRUE
    /\ identifier = ""
    /\ item_fetch = NoItemFetch
    /\ variables_fetch = NoVariablesFetch
    /\ result = NoResult
    /\ MainIdle
    /\ CloneDateIdle
    /\ EnvironmentIdle
    /\ file \in Files
    /\ content \in Contents
    /\ file_before = MissingFile
    /\ updates = 0

NextStandards == UpdateMarkdownFile

SpecStandards == InitStandards /\ [][NextStandards]_vars

\* Construction from every combination of populated fields.
NextConstruct == Construct

SpecConstruct == Init /\ [][NextConstruct]_vars

\* -------------------------------------------------------------- properties
\* The operation under way or last run is a finished query_table call.
QueryTableOver == op = "query_table" /\ pc = "ready" /\ outcome.op = "query_table"

\* C1: with batch_size B and no limit, against a backend that answers the
\* successive page requests with B, B and then k records (0 < k < B),
\* query_table returns exactly the 2B+k records in the order served, none
\* repeated, and has sent exactly 3 requests.
C1_PagesBBk ==
    /\ op = "query_table"
    /\ qt.limit = None
    /\ Len(qt.pages) >= 3
    /\ qt.pages[1] = qt.batch_size
    /\ qt.pages[2] = qt.batch_size
    /\ qt.pages[3] > 0
    /\ qt.pages[3] < qt.batch_size

C1_Pagination ==
    C1_PagesBBk =>
        /\ QueryTableOver
        /\ outcome.state = "returned"
        /\ outcome.value = Serial(0, 2 * qt.batch_size + qt.pages[3])
        /\ qt.nreq = 3

C1_Witness ==
    /\ C1_PagesBBk
    /\ QueryTableOver
    /\ qt.batch_size = 3
    /\ qt.pages = <<3, 3, 2>>
    /\ outcome.value = <<1, 2, 3, 4, 5, 6, 7, 8>>

\* C2: the list returned by query_table(limit=L) holds at most L records,
\* whatever the sizes of the pages the backend returns.
C2_AtMostLimit ==
    (QueryTableOver /\ outcome.state = "returned" /\ qt.limit # None)
        => Len(outcome.value) <= qt.limit

\* A call of the client met a cached token obtained at tick t0 with
\* expires_in = N.
TokenCachedBefore ==
    /\ exchange.checked
    /\ exchange.token_before # None
    /\ exchange.fetched_before # NotFetched

\* C3: with a token obtained at t0 with expires_in = N, a call at
\* t0 + N - 31 s does not fetch a new token and a call at t0 + N - 29 s does;
\* a cached token is treated as expired exactly when
\* now >= expiry_epoch - 30.
C3_TokenExpiry ==
    TokenCachedBefore =>
        LET t0 == exchange.fetched_before.at
            N == exchange.fetched_before.expires_in
        IN  /\ exchange.at = t0 + (N - 31) * Resolution => ~exchange.token_posted
            /\ exchange.at = t0 + (N - 29) * Resolution => exchange.token_posted
            /\ exchange.token_posted
                 <=> exchange.at >= (exchange.expiry_before - OAuthMargin) * Resolution

C3_Witness ==
    /\ TokenCachedBefore
    /\ exchange.fetched_before.expires_in > OAuthMargin
    /\ exchange.at = exchange.fetched_before.at
                       + (exchange.fetched_before.expires_in - 29) * Resolution
    /\ exchange.token_posted

\* C4: a client configured with username+password and with
\* client_id+client_secret is in Basic mode for its whole life: its requests
\* carry basic credentials, never a Bearer header, and it never sends a
\* request to the token endpoint.
C4_BasicModeOnly ==
    (pc \in {"ready", "running"} /\ config.username /\ config.password
        /\ config.client_id /\ config.client_secret)
        => /\ auth = "basic"
           /\ ~exchange.token_posted
           /\ exchange.sent => (exchange.request.basic /\ exchange.request.bearer = None)

\* C5: in OAuth mode every table-API request sent carries a Bearer token that
\* the token endpoint issued and that satisfies now < expiry_epoch - 30 at
\* the moment of sending; none is sent with a null token or with basic
\* credentials.
C5_BearerFresh ==
    (AuthChoice(config) = "oauth" /\ exchange.sent)
        => /\ ~exchange.request.basic
           /\ exchange.request.bearer \in issued
           /\ oauth_expiration_epoch # None
           /\ exchange.at < (oauth_expiration_epoch - OAuthMargin) * Resolution

\* The token endpoint answered the POST of the last step.
TokenAnswered == exchange.token_posted /\ exchange.token_resp.net = "ok"

\* Nothing of the token response was cached and the table request was held
\* back.
TokenFetchFailed ==
    /\ exchange.err # NoError
    /\ ~exchange.sent
    /\ oauth_token = exchange.token_before
    /\ oauth_expiration_epoch = exchange.expiry_before
    /\ fetched_at = exchange.fetched_before

\* C6 as stated: a token response whose status is not in 200..299, or whose
\* body has no access_token, ends the fetch in an error, caches no token and
\* holds the table request back.
C6_Non2xxTokenResponseFails ==
    (TokenAnswered
        /\ (exchange.token_resp.status \notin 200..299
            \/ exchange.token_resp.json # "map"
            \/ exchange.token_resp.access_token = 0))
        => TokenFetchFailed

\* C6 (amended): a token response whose status is 400 or above, or whose
\* body has no access_token, ends the fetch in an error (a
\* ServiceNowAPIError when the status is 400 or above or the decoded object
\* lacks access_token), caches no token and holds the table request back.
C6_TokenFetchFails ==
    (TokenAnswered
        /\ (exchange.token_resp.status >= 400
            \/ exchange.token_resp.json # "map"
            \/ exchange.token_resp.access_token = 0))
        => /\ TokenFetchFailed
           /\ (exchange.token_resp.status >= 400
               \/ (exchange.token_resp.json = "map" /\ exchange.token_resp.access_token = 0))
                => exchange.err.kind = "ServiceNowAPIError"

C6_Witness ==
    /\ TokenAnswered
    /\ op = "get_record"
    /\ exchange.token_resp.status = 400
    /\ exchange.token_resp.access_token # 0
    /\ exchange.token_before # None
    /\ TokenFetchFailed
    /\ outcome.state = "raised"

\* The table API answered the request of the last step.
TableAnswered == exchange.sent /\ exchange.resp.net = "ok"

C8_JsonOrError ==
    TableAnswered
        => /\ exchange.err = NoError
                => (/\ exchange.resp.status < 400
                    /\ exchange.resp.payload.shape # "none"
                    /\ exchange.payload = exchange.resp.payload)
           /\ (exchange.resp.status >= 400 \/ exchange.resp.payload.shape = "none")
                => (/\ exchange.err.kind = "ServiceNowAPIError"
                    /\ exchange.err.status_code = exchange.resp.status)

C8_Witness ==
    /\ TableAnswered
    /\ exchange.resp.status = 400
    /\ exchange.resp.payload.shape = "map"
    /\ exchange.err.status_code = 400
    /\ outcome.state = "raised"

\* The table an operation falls back to.
FallbackTable(o) ==
    IF o = "get_clone_info" THEN "sn_instance_clone_request" ELSE "sc_item_option"

FallbackOps == {"get_clone_info", "get_catalog_item_variables"}

\* The payload of the error has an error.message that starts with
\* "invalid table" in any letter case.
InvalidTableMessage(exc) ==
    /\ exc.payload.shape = "map"
    /\ exc.payload.error_shape = "map"
    /\ StartsWith(Lower(exc.payload.message), InvalidTablePrefix)

\* The payload of the error has an "error" member that is itself a string
\* starting with "invalid table".
InvalidTableString(exc) ==
    /\ exc.payload.shape = "map"
    /\ exc.payload.error_shape = "str"
    /\ StartsWith(Lower(exc.payload.message), InvalidTablePrefix)

\* Exactly one query went to the fallback table, right after the primary
\* one, and the error of the primary query was not raised to the caller.
FellBackOnce ==
    /\ Len(queries) >= 2
    /\ queries[2] = FallbackTable(op)
    /\ Cardinality({i \in 1..Len(queries) : queries[i] = FallbackTable(op)}) = 1
    /\ ~(outcome.state = "raised" /\ outcome.err = primary_err /\ Len(queries) = 1)

\* C9 as stated: a primary query failing with an invalid-table message,
\* whatever the HTTP status of the error, is followed by exactly one query
\* on the fallback table and its error is not raised.
C9_FallbackWhateverStatus ==
    (op \in FallbackOps /\ primary_err # NoError /\ InvalidTableMessage(primary_err))
        => FellBackOnce

\* C9 (amended): a primary query failing with HTTP status 400 and an
\* invalid-table message (any letter case) is followed by exactly one query
\* on the fallback table and its error is not raised.
C9_FallbackOnInvalidTable ==
    (op \in FallbackOps /\ primary_err # NoError /\ primary_err.status_code = 400
        /\ InvalidTableMessage(primary_err))
        => FellBackOnce

C9_Witness ==
    /\ op = "get_clone_info"
    /\ primary_err.status_code = 400
    /\ primary_err.payload.message = MsgInvalidTableUpper
    /\ InvalidTableMessage(primary_err)
    /\ queries = <<"sys_clone_history", "sn_instance_clone_request">>
    /\ outcome.state = "returned"

\* C10: a primary query failing with an error whose payload message does not
\* start with "invalid table" never leads to a request on the fallback
\* table: the error reaches the caller and no further request is sent.
C10_NoFallbackOnOtherError ==
    (op \in FallbackOps /\ primary_err # NoError
        /\ ~InvalidTableMessage(primary_err) /\ ~InvalidTableString(primary_err))
        => /\ queries = <<qt.table>>
           /\ pc = "ready"
           /\ outcome = Raised(op, primary_err)
           /\ exchange.sent => exchange.request.table = queries[1]

C10_Witness ==
    /\ op = "get_catalog_item_variables"
    /\ primary_err.status_code = 400
    /\ primary_err.payload.message = MsgNotPrefix
    /\ queries = <<"sc_item_option_new">>
    /\ qt.nreq = 2
    /\ outcome = Raised(op, primary_err)

\* The last request of the operation was answered with a JSON object and
\* without an error: exchange.resp.result holds the rows of that answer.
RowsAnswered == exchange.sent /\ exchange.err = NoError /\ exchange.payload.shape = "map"

CloneInfoOver == op = "get_clone_info" /\ pc = "ready" /\ outcome.op = "get_clone_info"

\* C11: get_clone_info returns the first record of sys_clone_history when
\* that query gives at least one row; it queries sn_instance_clone_request
\* only after a primary query that failed or gave zero rows, and returns the
\* first record of that table; when both queries succeed with zero rows it
\* raises the not-found error whose message names the target instance; it
\* never returns an empty record list.
C11_CloneInfoFallback ==
    op = "get_clone_info" =>
        /\ (phase = "fallback" /\ qt.nreq = 0 /\ primary_err = NoError)
              => /\ exchange.request.table = "sys_clone_history"
                 /\ RowsAnswered
                 /\ exchange.resp.result = <<>>
                 /\ queries = <<"sys_clone_history", "sn_instance_clone_request">>
        /\ (CloneInfoOver /\ Len(queries) = 1 /\ primary_err = NoError)
              => /\ exchange.request.table = "sys_clone_history"
                 /\ exchange.resp.result # <<>>
                 /\ outcome = Returned(op, <<exchange.resp.result[1]>>)
        /\ (CloneInfoOver /\ Len(queries) = 2 /\ RowsAnswered /\ exchange.resp.result # <<>>)
              => /\ exchange.request.table = "sn_instance_clone_request"
                 /\ outcome = Returned(op, <<exchange.resp.result[1]>>)
        /\ (CloneInfoOver /\ Len(queries) = 2 /\ primary_err = NoError
                /\ RowsAnswered /\ exchange.resp.result = <<>>)
              => /\ outcome.state = "raised"
                 /\ outcome.err.kind = "ServiceNowAPIError"
                 /\ outcome.err.message = MsgNoCloneHistory(target_instance)
                 /\ \A t \in {"uat", "dev"} \ {target_instance} :
                        outcome.err.message # MsgNoCloneHistory(t)
        /\ (CloneInfoOver /\ outcome.state = "returned") => Len(outcome.value) = 1

C11_Witness ==
    /\ CloneInfoOver
    /\ target_instance = "dev"
    /\ queries = <<"sys_clone_history", "sn_instance_clone_request">>
    /\ primary_err = NoError
    /\ RowsAnswered
    /\ exchange.resp.result = <<>>
    /\ outcome.state = "raised"
    /\ outcome.err.message = "No clone history found for target instance 'dev'"

\* C12: when the query on sc_item_option_new succeeds with zero rows,
\* get_catalog_item_variables queries the fallback table sc_item_option
\* before it returns.
C12_EmptyPrimaryFallsBack ==
    (/\ op = "get_catalog_item_variables"
     /\ pc = "ready"
     /\ outcome.state = "returned"
     /\ primary_err = NoError
     /\ queries[1] = "sc_item_option_new"
     /\ (qt.table = "sc_item_option_new" => qt.collected = <<>>))
        => \E i \in 1..Len(queries) : queries[i] = "sc_item_option"

CatalogItemOver == op = "get_catalog_item" /\ pc = "ready" /\ outcome.op = "get_catalog_item"

\* C13: when get_catalog_item is called with a sys_id and the record request
\* fails, the error the caller receives is the error the request layer
\* raised, with the same kind and message.
C13_RequestErrorUnmodified ==
    (CatalogItemOver /\ is_sys_id(identifier) /\ exchange.err # NoError)
        => /\ outcome.state = "raised"
           /\ outcome.err.kind = exchange.err.kind
           /\ outcome.err.message = exchange.err.message

\* The status the (passed, severity) pairs of a list of checks call for.
PairsOf(checks) == {<<checks[i].passed, checks[i].severity>> : i \in 1..Len(checks)}

StatusOfPairs(pairs) ==
    IF <<FALSE, "ERROR">> \in pairs THEN "FAILED"
    ELSE IF <<FALSE, "WARNING">> \in pairs THEN "PASSED_WITH_WARNINGS"
    ELSE "PASSED"

ValidateReturned == result.state = "returned" /\ result.by = "validate"

\* C14: determine_overall_status gives FAILED when some check failed with
\* severity ERROR, else PASSED_WITH_WARNINGS when some check failed with
\* severity WARNING, else PASSED; the status is a function of the set of
\* (passed, severity) pairs, whatever the order of the checks; every result
\* of validate and of the error path of main carries that status of its checks.
C14_OverallStatus ==
    result.state \in {"status", "returned"}
        => result.overall_status = StatusOfPairs(PairsOf(result.checks))

C14_Witness ==
    /\ result.state = "status"
    /\ result.checks = <<ValidationCheck("check", FALSE, "WARNING"),
                         ValidationCheck("check", TRUE, "ERROR"),
                         ValidationCheck("check", FALSE, "INFO")>>
    /\ result.overall_status = "PASSED_WITH_WARNINGS"

CheckNames ==
    {"item_active", "display_name_clean", "short_description_present",
     "short_description_length", "short_description_quality", "workflow_attached",
     "category_set", "media_present", "variables_defined", "variable_question_text",
     "variable_active_state", "variable_help_text"}

\* How many checks of the result have one of the names.
Named(names) == Cardinality({i \in 1..Len(result.checks) : result.checks[i].name \in names})

\* C15 as stated: every result of validate holds exactly one check for each
\* of the twelve check names.
C15_AllTwelveChecks ==
    ValidateReturned => \A n \in CheckNames : Named({n}) = 1

\* C15 (amended): every result of validate holds exactly one check for each
\* of item_active, display_name_clean, workflow_attached, category_set and
\* media_present, exactly one check among the three short_description names,
\* and either a single failing variables_defined check (no variables) or one
\* check for each of the three variable names and no variables_defined
\* check; it holds seven or nine checks and none under another name.
C15_ChecksPresent ==
    ValidateReturned =>
        /\ \A n \in {"item_active", "display_name_clean", "workflow_attached",
                     "category_set", "media_present"} : Named({n}) = 1
        /\ Named({"short_description_present", "short_description_length",
                  "short_description_quality"}) = 1
        /\ IF variables_fetch.variables = <<>>
           THEN /\ Named({"variables_defined"}) = 1
                /\ Named({"variable_question_text", "variable_active_state",
                          "variable_help_text"}) = 0
                /\ Len(result.checks) = 7
           ELSE /\ Named({"variables_defined"}) = 0
                /\ \A n \in {"variable_question_text", "variable_active_state",
                             "variable_help_text"} : Named({n}) = 1
                /\ Len(result.checks) = 9
        /\ Named(CheckNames) = Len(result.checks)

C15_Witness ==
    /\ ValidateReturned
    /\ Len(variables_fetch.variables) = 2
    /\ Len(result.checks) = 9
    /\ Named({"short_description_quality"}) = 1
    /\ Named({"short_description_present", "short_description_length"}) = 0
    /\ Named({"variables_defined"}) = 0

\* The check of the result with the given name (there is one).
CheckNamed(n) == result.checks[CHOOSE i \in 1..Len(result.checks) : result.checks[i].name = n]

\* True as a boolean, or "true", "1" or "yes" in any letter case.
StrictlyTrue(v) ==
    \/ v.type = "bool" /\ v.b
    \/ v.type = "str" /\ Lower(v.s) \in {<<"t","r","u","e">>, <<"1">>, <<"y","e","s">>}

\* StrictlyTrue, or a value that is neither a bool nor a str and is truthy in
\* Python: a number other than 0, an object that is not empty.
CoercedTrue(v) ==
    \/ StrictlyTrue(v)
    \/ v.type = "int" /\ v.n # 0
    \/ v.type = "dict" /\ v.n > 0

\* C16 as stated: the coercion, here of the "active" field of an item that
\* has one, gives true for boolean true and for "true", "1", "yes" in any
\* letter case, and false for every other value.
C16_ToBoolStrict ==
    (ValidateReturned /\ item_fetch.item.active.type # "absent")
        => CheckNamed("item_active").passed = StrictlyTrue(item_fetch.item.active)

\* C16 (amended): the coercion gives true for boolean true, for "true", "1",
\* "yes" in any letter case, and for a value that is neither a boolean nor a
\* string and is truthy (a non-zero number, a non-empty object); it gives
\* false for boolean false, every other string, None, 0 and an empty object.
C16_ToBool ==
    (ValidateReturned /\ item_fetch.item.active.type # "absent")
        => CheckNamed("item_active").passed = CoercedTrue(item_fetch.item.active)

C16_Witness ==
    /\ ValidateReturned
    /\ item_fetch.item.active = PyInt(1)
    /\ CheckNamed("item_active").passed

ActiveByDefault(v) == v.type = "absent" \/ CoercedTrue(v)

HasText(v) == v.type = "str" /\ \E i \in 1..Len(v.s) : v.s[i] \notin {" ", "\t", "\n"}

\* C18: for a non-empty variable list, variable_help_text passes exactly when
\* every mandatory variable has help text or instruction text.
C18_HelpOrInstructions ==
    (ValidateReturned /\ variables_fetch.variables # <<>>)
        => CheckNamed("variable_help_text").passed
             = \A i \in 1..Len(variables_fetch.variables) :
                    LET var == variables_fetch.variables[i]
                    IN  (var.mandatory.type # "absent" /\ CoercedTrue(var.mandatory))
                            => (HasText(var.help_text) \/ HasText(var.instructions))

\* The name, in lower case, contains one of the prohibited tokens.
NameHasToken(v) ==
    /\ v.type = "str"
    /\ \E token \in {<<"c","o","p","y"," ","o","f">>, <<"t","e","m","p","l","a","t","e">>, <<"d","r","a","f","t">>, <<"t","e","s","t">>} :
           Contains(Lower(v.s), token)

\* C19: display_name_clean fails exactly when the name of the item, compared
\* without regard to case, contains "copy of", "template", "draft" or "test";
\* it then has severity ERROR and overall_status is FAILED; an item without
\* variables also gets a failing variables_defined check of severity WARNING.
C19_DisplayNameClean ==
    ValidateReturned
        => /\ CheckNamed("display_name_clean").passed = ~NameHasToken(item_fetch.item.name)
           /\ NameHasToken(item_fetch.item.name)
                => /\ CheckNamed("display_name_clean").severity = "ERROR"
                   /\ result.overall_status = "FAILED"
           /\ variables_fetch.variables = <<>>
                => CheckNamed("variables_defined") =
                     ValidationCheck("variables_defined", FALSE, "WARNING")

C19_Witness ==
    /\ ValidateReturned
    /\ item_fetch.item.name = PyStr(<<" "," ","N","e","w"," ","T","E","M","P","L","A","T","E"," ">>)
    /\ item_fetch.item.active = PyBool(TRUE)
    /\ ~CheckNamed("display_name_clean").passed
    /\ variables_fetch.variables = <<>>
    /\ result.overall_status = "FAILED"

\* C20: whenever the item fetch and the variables fetch both succeed,
\* validate returns a result and raises nothing.
C20_ValidateReturns ==
    (/\ result.by = "validate"
     /\ item_fetch.state = "returned"
     /\ variables_fetch.state = "returned")
        => result.state = "returned"

\* A call of the client made in the last pass of the loop of main failed.
FetchFailed == item_fetch.state = "raised" \/ variables_fetch.state = "raised"

\* C21: in a run of main over several identifiers, whenever the fetch for an
\* identifier fails, for whatever reason the request layer produces, main
\* goes on: the identifier gets the result whose only check is api_error
\* (failed, ERROR) with overall status FAILED, one result per pass so far.
C21_BatchNotAborted ==
    (main_pc \in {"loop", "returned", "raised"} /\ FetchFailed) =>
        /\ main_pc # "raised"
        /\ main_results # <<>>
        /\ main_results[Len(main_results)] = error_result(identifier)
        /\ main_results[Len(main_results)].checks = <<ValidationCheck("api_error", FALSE, "ERROR")>>
        /\ main_results[Len(main_results)].overall_status = "FAILED"

\* The clone record has a timestamp that can be used: the first of its four
\* fields that is not empty is a string one of the formats takes.
UsableTimestamp(record) ==
    /\ PyTruthy(timestamp_value(record))
    /\ timestamp_value(record).type = "str"
    /\ strptime_formats(timestamp_value(record).s).ok

EvaluatedOn(fetch_state) ==
    clone_fetch.state = fetch_state /\ clone_status.state # "none"

\* C22: evaluate_clone_status on a clone record returns a CloneStatus whose
\* is_stale is true exactly when the whole days since the clone timestamp
\* exceed stale_after_days, or when the record has no usable timestamp
\* (missing, empty or unparseable), in which case it carries a warning.
C22_StaleOrUnknown ==
    EvaluatedOn("returned") =>
        /\ clone_status.state = "returned"
        /\ IF UsableTimestamp(clone_fetch.record)
           THEN /\ clone_status.known
                /\ clone_status.days_since_clone
                     = Days(now_utc, strptime_formats(timestamp_value(clone_fetch.record).s).at)
                /\ clone_status.is_stale = (clone_status.days_since_clone > stale_after_days)
           ELSE /\ clone_status.is_stale
                /\ clone_status.warning_message # "none"

\* The value of the first of the three variables of a key that is set and
\* not empty, None when there is none.
FirstSet(key) ==
    LET names == LookupKeys(Upper(environment), key)
        set == {i \in 1..3 : getenv(environ, names[i]) \notin {PyNone, PyStr(<<>>)}}
    IN  IF set = {} THEN PyNone
        ELSE getenv(environ, names[CHOOSE i \in set : \A j \in set : i <= j])

ConfigLoaded == env_config.state # "none"

\* The configuration failed to load because of the URL, before any request.
UrlErrorBeforeRequest ==
    /\ env_config.state = "raised"
    /\ env_config.err = "EnvironmentError"
    /\ env_config.missing = VariableName(1, Upper(environment), "URL")
    /\ pc = "dead"
    /\ exchange = NoExchange

\* The fields of the configuration that hold the text of a variable.
TextFields ==
    /\ env_config.username = FirstSet("USERNAME")
    /\ env_config.password = FirstSet("PASSWORD")
    /\ env_config.client_id = FirstSet("CLIENT_ID")
    /\ env_config.client_secret = FirstSet("CLIENT_SECRET")
    /\ env_config.oauth_token_url = FirstSet("OAUTH_TOKEN_URL")

\* C23 as stated: for every environment name and every key the loaded
\* configuration holds the value of the first variable that is set and not
\* empty among the three forms of its name; with no URL variable the load
\* fails naming SERVICENOW_<E>_URL before any request.
C23_FirstSetValue ==
    ConfigLoaded =>
        IF FirstSet("URL") = PyNone THEN UrlErrorBeforeRequest
        ELSE /\ env_config.state = "returned"
             /\ env_config.instance_url = FirstSet("URL").s
             /\ TextFields

\* C23, amended: the first variable that is set and not empty decides every
\* key; the URL is kept without its trailing slashes, VERIFY_SSL is turned
\* into a flag and TIMEOUT into an integer, and a TIMEOUT that is no integer
\* makes the load fail.
C23_LayeredLookup ==
    ConfigLoaded =>
        IF FirstSet("URL") = PyNone THEN UrlErrorBeforeRequest
        ELSE IF FirstSet("TIMEOUT") # PyNone /\ ~IntOf(FirstSet("TIMEOUT").s).ok
        THEN env_config.state = "raised" /\ env_config.err = "ValueError"
        ELSE /\ env_config.state = "returned"
             /\ env_config.instance_url = RStripSlash(FirstSet("URL").s)
             /\ TextFields
             /\ env_config.verify_ssl
                  = (FirstSet("VERIFY_SSL") = PyNone
                     \/ Lower(FirstSet("VERIFY_SSL").s) # <<"f","a","l","s","e">>)
             /\ env_config.request_timeout
                  = IF FirstSet("TIMEOUT") = PyNone THEN 60
                    ELSE IntOf(FirstSet("TIMEOUT").s).n

\* Only the global URL is set (the first form is empty, the second unset),
\* and the user name comes from the second form.
C23_Witness ==
    /\ env_config.state = "returned"
    /\ getenv(environ, VariableName(1, Upper(environment), "URL")) = PyStr(<<>>)
    /\ getenv(environ, VariableName(2, Upper(environment), "URL")) = PyNone
    /\ env_config.instance_url = RStripSlash(LayerText("URL", 3).s)
    /\ getenv(environ, VariableName(1, Upper(environment), "USERNAME")) = PyNone
    /\ env_config.username = LayerText("USERNAME", 2)

\* The constructor has run.
Constructed == op = "__init__" /\ outcome.op = "__init__"

BasicPair == config.username /\ config.password
OAuthTriple == config.client_id /\ config.client_secret /\ config.oauth_token_url

\* C24: construction succeeds only when an authentication mode can be
\* resolved from the config (username and password, or client_id and
\* client_secret together with a token URL); for every other combination of
\* populated fields it fails with a configuration error and nothing is sent.
C24_AuthModeResolved ==
    Constructed =>
        /\ (outcome.state = "returned" => (BasicPair \/ OAuthTriple))
        /\ (~(BasicPair \/ OAuthTriple) =>
                /\ outcome.state = "raised"
                /\ outcome.err.kind = "ValueError"
                /\ pc = "dead"
                /\ exchange = NoExchange
                /\ issued = {})

\* Half a basic pair and client credentials without a token URL.
C24_Witness ==
    /\ Constructed
    /\ config.username /\ ~config.password
    /\ config.client_id /\ config.client_secret /\ ~config.oauth_token_url
    /\ outcome.state = "raised"

\* C25: no request is retried: when a page request of query_table fails
\* (timeout, 5xx, 401, undecodable body) the call raises that failure at
\* once, with no further request for the query (the failed request is the
\* last one counted) and none of the records collected from earlier pages.
C25_NoRetry ==
    (op = "query_table" /\ exchange.err # NoError) =>
        /\ pc = "ready"
        /\ outcome = Raised("query_table", exchange.err)
        /\ outcome.value = <<>>
        /\ qt.nreq = Len(qt.pages) + (IF exchange.sent THEN 1 ELSE 0)

\* The third request fails with status 500 after two pages were collected.
C25_Witness ==
    /\ QueryTableOver
    /\ outcome.state = "raised"
    /\ exchange.sent /\ exchange.resp.status = 500
    /\ Len(qt.pages) = 2
    /\ Len(qt.collected) >= 2
    /\ qt.nreq = 3

IsPrefix(p, text) == Len(p) <= Len(text) /\ SubSeq(text, 1, Len(p)) = p
IsSuffix(p, text) ==
    Len(p) <= Len(text) /\ SubSeq(text, Len(text) - Len(p) + 1, Len(text)) = p

\* The file existed and has been updated.
UpdatedExisting == updates > 0 /\ file_before.exists

\* C26: an update of an existing file changes only the text between the
\* start marker and the end marker: when both markers occur in the file, in
\* either order and any number of times, there are a start marker and an end
\* marker of the file such that the text before the one and the text after
\* the other are what they were; when no marker occurs the previous content
\* is kept in full and one marked block is appended.
C26_OnlyBetweenMarkers ==
    UpdatedExisting =>
        LET old == file_before.text
            new == file.text
        IN  /\ (Occurs(COMMON_MARKER_START, old) /\ Occurs(COMMON_MARKER_END, old)) =>
                \E i, j \in 1..Len(old) :
                    /\ old[i] = COMMON_MARKER_START
                    /\ old[j] = COMMON_MARKER_END
                    /\ IsPrefix(SubSeq(old, 1, i - 1), new)
                    /\ IsSuffix(SubSeq(old, j + 1, Len(old)), new)
            /\ (~Occurs(COMMON_MARKER_START, old) /\ ~Occurs(COMMON_MARKER_END, old)) =>
                /\ IsPrefix(old, new)
                /\ IsSuffix(MarkedBlock(COMMON_MARKER_START, COMMON_MARKER_END, content)
                              \o <<LineBreak>>, new)

\* A request of the running or finished query_table call has been sent.
PageRequested == op = "query_table" /\ exchange.sent

\* The records the last request added to the collection.
LastFetched ==
    IF exchange.err = NoError /\ exchange.payload.shape = "map"
    THEN Len(exchange.resp.result) ELSE 0

\* The number of records collected when the last request was sent.
CollectedBefore == Len(qt.collected) - LastFetched

RECURSIVE SumOf(_)
SumOf(sizes) == IF sizes = <<>> THEN 0 ELSE Head(sizes) + SumOf(Tail(sizes))

\* min(batch_size, limit minus the records collected), batch_size without a limit
ExpectedLimit(collected) ==
    IF qt.limit = None THEN qt.batch_size
    ELSE IF qt.batch_size < qt.limit - collected THEN qt.batch_size ELSE qt.limit - collected

\* The pages answered before the last request.
EarlierPages ==
    SubSeq(qt.pages, 1, Len(qt.pages) - (IF exchange.err = NoError /\ exchange.payload.shape = "map"
                                         THEN 1 ELSE 0))

\* C27: every request of query_table asks for min(batch_size, limit minus the
\* records collected so far) records (batch_size without a limit) at the
\* offset equal to the number of records collected so far, and none is sent
\* after an empty page, after a page shorter than was asked for, or once the
\* collected count has reached limit.
C27_PageRequests ==
    PageRequested =>
        /\ exchange.request.limit = ExpectedLimit(CollectedBefore)
        /\ exchange.request.offset = CollectedBefore
        /\ CollectedBefore = SumOf(EarlierPages)
        /\ \A i \in 1..Len(EarlierPages) :
              /\ EarlierPages[i] > 0
              /\ EarlierPages[i] >= ExpectedLimit(SumOf(SubSeq(EarlierPages, 1, i - 1)))
        /\ (qt.limit # None => CollectedBefore < qt.limit)

\* How many of the queries of the operation went to a table.
QueriesOn(table) == Cardinality({i \in 1..Len(queries) : queries[i] = table})

\* The last request went to a table other than the primary one and failed.
FallbackQueryFailed ==
    /\ Len(queries) >= 2
    /\ exchange.sent
    /\ exchange.request.table # queries[1]
    /\ exchange.err # NoError

\* C28: get_clone_info and get_catalog_item_variables fall back at most
\* once: the primary table and the fallback table are each queried at most
\* once, and when a query made after the primary one fails, even with an
\* invalid-table error, the operation ends raising that error, the failed
\* query being its last.
C28_FallbackAtMostOnce ==
    (op \in FallbackOps /\ queries # <<>>) =>
        /\ QueriesOn(queries[1]) = 1
        /\ QueriesOn(FallbackTable(op)) <= 1
        /\ FallbackQueryFailed =>
              /\ pc = "ready"
              /\ outcome = Raised(op, exchange.err)
              /\ exchange.request.table = queries[Len(queries)]

\* The fallback table of get_clone_info is an invalid table as well.
C28_Witness ==
    /\ op = "get_clone_info"
    /\ FallbackQueryFailed
    /\ is_invalid_table_error(exchange.err)
    /\ is_invalid_table_error(primary_err)
    /\ queries = <<"sys_clone_history", "sn_instance_clone_request">>
    /\ outcome.state = "raised"

\* No value occurs twice in a sequence.
Values(seq) == {seq[i] : i \in 1..Len(seq)}

NoDuplicates(seq) == Cardinality(Values(seq)) = Len(seq)

\* Where a value first occurs in a sequence it occurs in.
FirstAt(id, rows) ==
    \* the least of the places where it occurs
    CHOOSE i \in {k \in 1..Len(rows) : rows[k] = id} :
        \A j \in {k \in 1..Len(rows) : rows[k] = id} : i <= j

\* Each value of a sequence first occurs in rows before the next one does.
InOrderOf(seq, rows) ==
    \A i \in 1..(Len(seq) - 1) : FirstAt(seq[i], rows) < FirstAt(seq[i + 1], rows)

\* ids holds the ids the rows have (0: a row without one), each once, in
\* the order in which they first appear.
InOrderOfFirstAppearance(ids, rows) ==
    /\ NoDuplicates(ids)
    /\ Values(ids) = Values(rows) \ {0}
    /\ InOrderOf(ids, rows)

\* part is what is left of whole, in the order of whole, when some of its
\* values are taken out.
KeepsOrder(part, whole) ==
    /\ NoDuplicates(part)
    /\ Values(part) \subseteq Values(whole)
    /\ InOrderOf(part, whole)

\* The lookups of item_option_new sent so far, and the ids the k-th one
\* has to ask for when every lookup takes the next 50.
LookupsSent == QueriesOn("item_option_new")
Slice(ids, k) == SubSeq(ids, 50 * (k - 1) + 1, Min(50 * k, Len(ids)))

\* Every id is in the first n slices exactly once, repetitions counted.
AskedForOnce(ids, n) ==
    \E slices \in {[k \in 1..n |-> Slice(ids, k)]} :
        \A i \in 1..Len(ids) :
            Cardinality({s \in (1..n) \X (1..50) :
                            s[2] <= Len(slices[s[1]]) /\ slices[s[1]][s[2]] = ids[i]}) = 1

\* The records the lookups returned: those of the chunks before the last,
\* and those the last query_table call collected.
LookedUp == (fb.results \cup Values(qt.collected)) \ {0}

\* The option rows were fetched and the first lookup is about to be sent.
OptionRowsFetched ==
    /\ phase = "lookup"
    /\ qt.nreq = 0
    /\ fb.start = 0
    /\ exchange.request.table = "sc_item_option"

ResolverReturned ==
    /\ op = "get_catalog_item_variables"
    /\ pc = "ready"
    /\ outcome.state = "returned"
    /\ QueriesOn("sc_item_option") = 1

\* C29: the fallback resolver of get_catalog_item_variables collects the
\* ids of the sc_item_option rows in order of first appearance, each once;
\* it looks them up in chunks of at most 50 ids, the k-th lookup asking for
\* the k-th 50 of them, so that at the return every id was asked for exactly
\* once; and it returns, in that order and each at most once, exactly the
\* ids of the rows for which a lookup returned a record.
C29_OrderedChunkedLookup ==
    op = "get_catalog_item_variables" =>
        /\ OptionRowsFetched =>
              InOrderOfFirstAppearance(fb.option_ids, exchange.resp.result)
        /\ LookupsSent >= 1 =>
              /\ NoDuplicates(fb.option_ids)
              /\ fb.chunk = Slice(fb.option_ids, LookupsSent)
              /\ Len(fb.chunk) \in 1..50
              /\ qt.table = "item_option_new"
              /\ qt.limit = Len(fb.chunk)
        /\ (ResolverReturned /\ LookupsSent = 0) =>
              /\ outcome.value = <<>>
              /\ Values(exchange.resp.result) \subseteq {0}
        /\ (ResolverReturned /\ LookupsSent >= 1) =>
              /\ AskedForOnce(fb.option_ids, LookupsSent)
              /\ KeepsOrder(outcome.value, fb.option_ids)
              /\ Values(outcome.value) = Values(fb.option_ids) \cap LookedUp

\* Rows with a repeated id and more ids than one chunk holds, looked up in
\* two chunks of which only the second returned its record.
C29_Witness ==
    /\ ResolverReturned
    /\ LookupsSent = 2
    /\ Len(fb.option_ids) = 51
    /\ fb.option_ids[1] = 51
    /\ fb.chunk = <<50>>
    /\ fb.results = {2}
    /\ outcome.value = <<2, 50>>

\* ------------------------------------------------------ token cache frame
\* OAuth credentials only, with and without the automatic refresh.
OAuthConfig ==
    [username |-> FALSE, password |-> FALSE, client_id |-> TRUE,
     client_secret |-> TRUE, oauth_token_url |-> TRUE]

InitOAuth ==
    /\ Init
    /\ config = OAuthConfig

\* A backend that words its errors in two ways and serves a record at most
\* at a time.
PlainBackend ==
    /\ exchange'.resp.payload \in
          {NonePayload, PlainPayload,
           [shape |-> "map", error_shape |-> "map", message |-> MsgInvalidTable],
           [shape |-> "map", error_shape |-> "map", message |-> MsgForbidden]}
    /\ Len(exchange'.resp.result) <= 1

\* query_table called for two records in pages of one
PagedQueryTable == CallQueryTable /\ qt'.batch_size = 1 /\ qt'.limit = 2

PagedQueryTableStep == QueryTableStep /\ PlainBackend

VariablesStep == GetCatalogItemVariablesStep /\ PlainBackend

\* The token cache under pagination and the table fallback: every token
\* response at construction and before every request.
NextTokenCache ==
    \/ Construct
    \/ PagedQueryTable
    \/ PagedQueryTableStep
    \/ CallGetCatalogItemVariables
    \/ VariablesStep

SpecTokenCache == InitOAuth /\ [][NextTokenCache]_vars

\* The token endpoint answered the last token request with a token.
TokenFetched(exch) ==
    /\ exch.token_posted
    /\ exch.token_resp.net = "ok"
    /\ exch.token_resp.status < 400
    /\ exch.token_resp.json = "map"
    /\ exch.token_resp.access_token # 0

\* C30: a step changes the cached access token or its expiry only when it
\* fetched a token successfully, and then to the token of the response and
\* to the time of the fetch plus its lifetime; table requests, the pages of
\* a query, fallback queries and failed token fetches leave both as they are.
C30_TokenCacheFrame ==
    [][(oauth_token' # oauth_token \/ oauth_expiration_epoch' # oauth_expiration_epoch) =>
          /\ TokenFetched(exchange')
          /\ oauth_token' = exchange'.token_resp.access_token
          /\ oauth_expiration_epoch' = IntTime(now) + ExpiresIn(exchange'.token_resp)]_vars

\* A fallback query whose token fetch failed while a token was cached.
C30_Witness ==
    /\ op = "get_catalog_item_variables"
    /\ Len(queries) >= 2
    /\ exchange.token_posted
    /\ ~TokenFetched(exchange)
    /\ ~exchange.sent
    /\ exchange.token_before # None
    /\ oauth_token = exchange.token_before
    /\ oauth_expiration_epoch = exchange.expiry_before

\* The second page of a query fetched with the token the first page cached.
C30_PagedWitness ==
    /\ op = "query_table"
    /\ qt.nreq >= 2
    /\ exchange.sent
    /\ ~exchange.token_posted
    /\ exchange.resp.status = 200
    /\ oauth_token = exchange.token_before
    /\ oauth_token # None

\* The lifetime a token response states, 1800 s when it states none.
LifetimeOf(tr) == IF tr.expires_in = None THEN 1800 ELSE tr.expires_in

\* C31 as stated: a token fetched at time t is cached with the expiry
\* t + expires_in (1800 when the response omits it), and no call made before
\* t + expires_in - 30 fetches a token again.  Times are in clock ticks.
C31_ExpiryFromFetchTime ==
    /\ exchange.token_ok =>
          /\ oauth_token = exchange.token_resp.access_token
          /\ oauth_expiration_epoch * Resolution
               = exchange.at + LifetimeOf(exchange.token_resp) * Resolution
    /\ (TokenCachedBefore
          /\ exchange.at < exchange.fetched_before.at
                             + (exchange.fetched_before.expires_in - 30) * Resolution)
          => ~exchange.token_posted

\* C31 (amended): a token fetched at time t is cached with the expiry
\* int(t) + expires_in (1800 when the response omits it), t cut down to whole
\* seconds, and no call made before int(t) + expires_in - 30 fetches a token
\* again.
C31_ExpiryFromWholeSeconds ==
    /\ exchange.token_ok =>
          /\ oauth_token = exchange.token_resp.access_token
          /\ oauth_expiration_epoch
               = (exchange.at \div Resolution) + LifetimeOf(exchange.token_resp)
    /\ (TokenCachedBefore
          /\ exchange.at < ((exchange.fetched_before.at \div Resolution)
                              + exchange.fetched_before.expires_in - 30) * Resolution)
          => ~exchange.token_posted

\* A token fetched between two whole seconds with a lifetime of 32 s, and a
\* later call made before it expires that fetches none.
C31_Witness ==
    /\ TokenCachedBefore
    /\ exchange.fetched_before.at % Resolution # 0
    /\ exchange.fetched_before.expires_in = 32
    /\ exchange.at > exchange.fetched_before.at
    /\ ~exchange.token_posted
    /\ exchange.sent
    /\ exchange.request.bearer = exchange.token_before

\* A token response without expires_in was cached.
C31_DefaultLifetime ==
    /\ exchange.token_ok
    /\ exchange.token_resp.expires_in = None
    /\ oauth_expiration_epoch = (exchange.at \div Resolution) + 1800

\* An identifier made of exactly 32 characters, each a hexadecimal digit.
ThirtyTwoHex(id) ==
    /\ Len(Chars(id)) = 32
    /\ \A i \in 1..32 :
          Chars(id)[i] \in {"0","1","2","3","4","5","6","7","8","9",
                            "a","b","c","d","e","f","A","B","C","D","E","F"}

\* GET /api/now/table/<table>/<sys_id>: no limit and no offset are sent.
SingleRecordGet(req) == req.limit = None /\ req.offset = None

\* The name query of get_catalog_item came back without an error and
\* without a row.
NameQueryEmpty ==
    /\ CatalogItemOver
    /\ ~ThirtyTwoHex(identifier)
    /\ exchange.sent
    /\ exchange.err = NoError
    /\ exchange.payload.shape = "map"
    /\ qt.collected = <<>>

\* C32: every request of get_catalog_item goes to sc_cat_item; it is a
\* single-record GET exactly when the identifier is 32 hexadecimal
\* characters and a query with limit 1 for every other string; a name query
\* that returns no rows ends in a not-found error (status 404) and returns
\* no record.
C32_RecordOrNameQuery ==
    /\ (op = "get_catalog_item" /\ exchange.sent) =>
          /\ exchange.request.table = "sc_cat_item"
          /\ SingleRecordGet(exchange.request) <=> ThirtyTwoHex(identifier)
          /\ ~ThirtyTwoHex(identifier) =>
                (exchange.request.limit = 1 /\ exchange.request.offset = 0 /\ qt.limit = 1)
    /\ NameQueryEmpty =>
          /\ outcome.state = "raised"
          /\ outcome.err.kind = "ServiceNowAPIError"
          /\ outcome.err.status_code = 404
          /\ outcome.value = <<>>

\* A name of 33 hexadecimal characters looked up by a query without rows.
C32_Witness ==
    /\ NameQueryEmpty
    /\ identifier = LongHex
    /\ exchange.resp.status = 200
    /\ outcome.err.message = MsgCatalogItemNamedNotFound(LongHex)

\* A sys_id in mixed case fetched as a single record.
C32_RecordWitness ==
    /\ CatalogItemOver
    /\ identifier = SysIdA
    /\ exchange.sent
    /\ SingleRecordGet(exchange.request)
    /\ outcome.state = "returned"

\* ------------------------------------------- short description checks
\* The short description of the validated item without the white space
\* around it.
DescriptionText ==
    LET s == item_fetch.item.short_description.s
        Inked == {i \in 1..Len(s) : s[i] \notin {" ", "\t", "\n", "\r"}}
    IN  IF Inked = {} THEN <<>>
        ELSE SubSeq(s, CHOOSE i \in Inked : \A j \in Inked : i <= j,
                       CHOOSE i \in Inked : \A j \in Inked : i >= j)

\* The word is in the text, whatever the case of the letters of the text.
HasWord(text, word) ==
    \E at \in 0..(Len(text) - Len(word)) :
        \A k \in 1..Len(word) : LowerChar(text[at + k]) = word[k]

Placeholder(text) ==
    \/ HasWord(text, <<"t","b","d">>)
    \/ HasWord(text, <<"l","o","r","e","m">>)
    \/ HasWord(text, <<"t","e","s","t">>)
    \/ HasWord(text, <<"s","a","m","p","l","e">>)

\* The result holds a failed check of the name with the severity.
FailsWith(name, severity) ==
    \E i \in 1..Len(result.checks) :
        result.checks[i] = ValidationCheck(name, FALSE, severity)

\* C33 as stated: for a short description that is not empty after trimming,
\* short_description_length fails with WARNING exactly when the trimmed text
\* has fewer than 15 characters, and short_description_quality fails with
\* WARNING exactly when the text holds "tbd", "lorem", "test" or "sample" in
\* any letter case, whatever its length.
C33_LengthAndQualityIndependent ==
    (ValidateReturned /\ DescriptionText # <<>>) =>
        /\ FailsWith("short_description_length", "WARNING") <=> Len(DescriptionText) < 15
        /\ FailsWith("short_description_quality", "WARNING") <=> Placeholder(DescriptionText)

\* C33 (amended): for a short description that is not empty after trimming,
\* short_description_length fails with WARNING exactly when the trimmed text
\* has fewer than 15 characters, and the result then holds no
\* short_description_quality check; a text of 15 characters or more gets no
\* short_description_length check and one short_description_quality check,
\* which fails with WARNING exactly when the text holds "tbd", "lorem",
\* "test" or "sample" in any letter case and passes otherwise.
C33_LengthThenQuality ==
    (ValidateReturned /\ DescriptionText # <<>>) =>
        /\ Named({"short_description_present"}) = 0
        /\ FailsWith("short_description_length", "WARNING") <=> Len(DescriptionText) < 15
        /\ Len(DescriptionText) < 15 => Named({"short_description_quality"}) = 0
        /\ Len(DescriptionText) >= 15 =>
              /\ Named({"short_description_length"}) = 0
              /\ Named({"short_description_quality"}) = 1
              /\ CheckNamed("short_description_quality").passed = ~Placeholder(DescriptionText)
        /\ FailsWith("short_description_quality", "WARNING")
              <=> (Len(DescriptionText) >= 15 /\ Placeholder(DescriptionText))

\* A short text with a placeholder word: the length check alone is recorded.
C33_Witness ==
    /\ ValidateReturned
    /\ item_fetch.item.short_description = PyStr(<<"T","e","s","t"," ","i","t","e","m">>)
    /\ Placeholder(DescriptionText)
    /\ FailsWith("short_description_length", "WARNING")
    /\ Named({"short_description_quality"}) = 0

\* Fourteen characters fail the length check.
C33_Fourteen ==
    /\ ValidateReturned
    /\ Len(DescriptionText) = 14
    /\ FailsWith("short_description_length", "WARNING")

\* Fifteen characters pass it, and the quality check is recorded.
C33_Fifteen ==
    /\ ValidateReturned
    /\ Len(DescriptionText) = 15
    /\ Named({"short_description_length"}) = 0
    /\ CheckNamed("short_description_quality") =
         ValidationCheck("short_description_quality", TRUE, "INFO")

\* ------------------------------------- variable summary and variable checks
\* C35: in every result of validate for an item with at least one variable,
\* variable_question_text fails exactly when missing_question_text > 0,
\* variable_active_state fails exactly when inactive > 0, and
\* variable_help_text fails exactly when mandatory_missing_help > 0.
C35_SummaryAgrees ==
    (ValidateReturned /\ variables_fetch.variables # <<>>) =>
        /\ ~CheckNamed("variable_question_text").passed
              <=> result.variable_summary.missing_question_text > 0
        /\ ~CheckNamed("variable_active_state").passed
              <=> result.variable_summary.inactive > 0
        /\ ~CheckNamed("variable_help_text").passed
              <=> result.variable_summary.mandatory_missing_help > 0

\* The two counts built from the same test as their check agree with it.
QuestionAndActiveAgree ==
    (ValidateReturned /\ variables_fetch.variables # <<>>) =>
        /\ ~CheckNamed("variable_question_text").passed
              <=> result.variable_summary.missing_question_text > 0
        /\ ~CheckNamed("variable_active_state").passed
              <=> result.variable_summary.inactive > 0

\* A mandatory variable with instructions and no help text: the check fails
\* and the summary counts nothing.
HelpCheckAgainstSummary ==
    /\ ValidateReturned
    /\ Len(variables_fetch.variables) = 1
    /\ HasText(variables_fetch.variables[1].instructions)
    /\ ~CheckNamed("variable_help_text").passed
    /\ result.variable_summary.mandatory_missing_help = 0
    /\ result.variable_summary.mandatory = 1

\* ------------------------------------------------ repeated file updates
\* How many times the marker occurs in the text.
Occurrences(marker, text) == Cardinality({i \in 1..Len(text) : text[i] = marker})

\* The text holds one start marker and one end marker.
OneOfEach(text) ==
    /\ Occurrences(COMMON_MARKER_START, text) = 1
    /\ Occurrences(COMMON_MARKER_END, text) = 1

\* The file is missing, holds no marker, or holds one start marker followed
\* by one end marker.
MissingPlainOrOnePair(f) ==
    \/ ~f.exists
    \/ /\ Occurrences(COMMON_MARKER_START, f.text) = 0
       /\ Occurrences(COMMON_MARKER_END, f.text) = 0
    \/ /\ OneOfEach(f.text)
       /\ \E i, j \in 1..Len(f.text) :
             i < j /\ f.text[i] = COMMON_MARKER_START /\ f.text[j] = COMMON_MARKER_END

\* The second update of a file that was missing, plain or held one pair.
SecondUpdate ==
    /\ updates = 1
    /\ updates' = 2
    /\ MissingPlainOrOnePair(file_before)

\* C36 as stated: for a file that is missing, holds no marker or holds one
\* marker pair, and for every content, the second update with the same
\* markers and content leaves the file as the first one made it, and the
\* file then holds exactly one start marker and one end marker.
C36_Idempotent ==
    [][SecondUpdate => (file' = file /\ OneOfEach(file'.text))]_vars

\* C36 (amended): the same for every content that holds neither marker.
C36_IdempotentOnPlainContent ==
    [][(SecondUpdate /\ Occurrences(COMMON_MARKER_START, content) = 0
                     /\ Occurrences(COMMON_MARKER_END, content) = 0)
          => (file' = file /\ OneOfEach(file'.text))]_vars

\* Two updates of a missing file: the header and one block, twice the same.
C36_Witness ==
    /\ updates = 2
    /\ content = <<"| Check |", LineBreak, "| api_error |">>
    /\ file = file_before
    /\ file.text = <<"# Common Mistakes", LineBreak, LineBreak,
                     COMMON_MARKER_START, LineBreak,
                     "| Check |", LineBreak, "| api_error |", LineBreak,
                     COMMON_MARKER_END, LineBreak>>

\* Two updates of a file of notes: the notes and one block, twice the same.
C36_AppendedOnce ==
    /\ updates = 2
    /\ content = <<"| Check |">>
    /\ file = file_before
    /\ file.text = <<"notes", LineBreak, COMMON_MARKER_START, LineBreak, "| Check |",
                     LineBreak, COMMON_MARKER_END, LineBreak>>

\* Two updates of a file with one pair: the text between the markers is
\* replaced and the notes around them stay.
C36_ReplacedOnce ==
    /\ updates = 2
    /\ content = <<"| Check |">>
    /\ file = file_before
    /\ file.text = <<"notes", COMMON_MARKER_START, LineBreak, "| Check |", LineBreak,
                     COMMON_MARKER_END, "notes">>

\* Two updates with a content that quotes the end marker: the second one
\* leaves another end marker behind the block.
C36_GrowsOnQuotedMarker ==
    /\ updates = 2
    /\ Occurs(COMMON_MARKER_END, content)
    /\ Len(file.text) > Len(file_before.text)
    /\ Occurrences(COMMON_MARKER_END, file.text) = 3

\* ------------------------------------------------ termination of query_table
LimitedQuery == op = "query_table" /\ qt.limit # None /\ qt.limit >= 1
HonestQuery == op = "query_table" /\ qt.limit = None /\ qt.held # None

\* The requests an honest run takes are among those followed.
Followed == qt.held \div qt.batch_size + 1 <= MaxRequests

\* A query with a limit L >= 1 has sent at most L requests, and is over once
\* it has sent L.
AtMostLimitRequests ==
    LimitedQuery => (qt.nreq <= qt.limit /\ (qt.nreq = qt.limit => pc = "ready"))

\* A query without a limit that is over against an honest backend of n
\* records returned the n records after floor(n / batch_size) + 1 requests.
HonestRunCount ==
    (HonestQuery /\ pc = "ready") =>
        /\ outcome = Returned("query_table", Serial(0, qt.held))
        /\ qt.nreq = qt.held \div qt.batch_size + 1

\* C34: query_table with a limit L >= 1 always terminates, after at most L
\* requests, whatever the backend returns; without a limit, against a
\* backend that holds n records and serves every page honestly, it
\* terminates after exactly floor(n / batch_size) + 1 requests and returns
\* the n records.
C34_Termination ==
    /\ []AtMostLimitRequests
    /\ []HonestRunCount
    /\ (LimitedQuery /\ pc = "running") ~> (pc = "ready")
    /\ (HonestQuery /\ Followed /\ pc = "running") ~> (pc = "ready")

\* Five records in batches of two: pages of 2, 2 and 1, three requests.
C34_Witness ==
    /\ HonestQuery
    /\ pc = "ready"
    /\ qt.held = 5
    /\ qt.batch_size = 2
    /\ qt.pages = <<2, 2, 1>>
    /\ qt.nreq = 3
    /\ outcome.value = <<1, 2, 3, 4, 5>>

\* Four records in batches of two: the third request finds nothing.
C34_EmptyLastPage ==
    /\ HonestQuery
    /\ pc = "ready"
    /\ qt.held = 4
    /\ qt.pages = <<2, 2, 0>>
    /\ Len(outcome.value) = 4

\* A limit of three in batches of one: over after the third request.
C34_LimitReached ==
    /\ LimitedQuery
    /\ pc = "ready"
    /\ qt.limit = 3
    /\ qt.batch_size = 1
    /\ qt.nreq = 3
    /\ outcome.state = "returned"

====
